---- MODULE Spec2Model ----
(***************************************************************************)
(* A model of the pcf-toolkit manifest core: the pydantic data model       *)
(* (models.py, types.py), the XML serializer (xml.py) and the XML importer *)
(* (xml_import.py).                                                        *)
(*                                                                         *)
(* Representation.                                                         *)
(*  - A Python str is a sequence of atoms.  In a value, an atom is one     *)
(*    non-letter character (" ", "-", ".", "1") or a run of letters        *)
(*    ("Whole"): "Whole.None" is <<"Whole", ".", "None">>.  A tag or an    *)
(*    attribute name is one atom ("data-set").                             *)
(*  - A scalar of plain data or of an entity is a tagged record            *)
(*    [k, s, i, b]: StrV(s), IntV(i), BoolV(b), NoneV.                     *)
(*  - A dict of plain data is a function from keys to values, a list is a  *)
(*    sequence, an entity is a function from field names to values.        *)
(*  - An XML element is [tag, attrib, text, children]: tag is the          *)
(*    ElementTree tag in Clark notation, <<local>> or                      *)
(*    <<"{", uri, "}", local>>; attrib is a sequence of <<name, value>>    *)
(*    pairs (an insertion-ordered dict); text is a str or None.            *)
(***************************************************************************)
EXTENDS Integers, Sequences, FiniteSets, TLC

VARIABLES
    pc,         \* the step the program is at
    klass,      \* the entity class last handed plain data
    data,       \* the plain data handed to validation
    model,      \* the entity validation built, NoneV when it raised
    errors,     \* the violations of the ValidationError it raised
    xml,        \* the XML document (serialized or given)
    imported,   \* the plain data the importer returned
    raised,     \* [cls, msg] of the exception the importer raised, cls "" if none
    model2,     \* the entity built from the imported data
    errors2,    \* the violations validation found in the imported data
    xml2,       \* the XML document serialized from model2
    dumped,     \* the plain data written as YAML or JSON text
    proxy       \* the proxy session of a project root: its file, processes and commands

vars == <<pc, klass, data, model, errors, xml, imported, raised, model2, errors2, xml2, dumped,
         proxy>>

(***************************************************************************)
(* Python str primitives                                                   *)
(***************************************************************************)
Whitespace == {" ", "\t", "\n"}

Digits == {"0", "1", "2", "3", "4", "5", "6", "7", "8", "9"}

NonAlnum == Whitespace \cup {"-", "+", "_", ".", "/", ":"}

DigitChar == <<"0", "1", "2", "3", "4", "5", "6", "7", "8", "9">>

DigitVal(c) == (CHOOSE n \in 1..10 : DigitChar[n] = c) - 1

RECURSIVE LStrip(_)
LStrip(s) == IF s # <<>> /\ Head(s) \in Whitespace THEN LStrip(Tail(s)) ELSE s

RECURSIVE RStrip(_)
RStrip(s) ==
    IF s # <<>> /\ s[Len(s)] \in Whitespace THEN RStrip(SubSeq(s, 1, Len(s) - 1)) ELSE s

\* str.strip()
Strip(s) == RStrip(LStrip(s))

LowerAtom(a) ==
    CASE a \in {"TRUE", "True", "tRuE"} -> "true"
      [] a \in {"FALSE", "False", "fAlSe"} -> "false"
      [] OTHER -> a

\* str.lower()
Lower(s) == [n \in 1..Len(s) |-> LowerAtom(s[n])]

\* str.isalnum(): non-empty and every character a letter or a digit
IsAlnum(s) == Len(s) > 0 /\ \A n \in 1..Len(s) : s[n] \notin NonAlnum

RECURSIVE DigitsValue(_)
DigitsValue(s) ==
    IF s = <<>> THEN 0 ELSE 10 * DigitsValue(SubSeq(s, 1, Len(s) - 1)) + DigitVal(s[Len(s)])

AllDigits(s) == Len(s) > 0 /\ \A n \in 1..Len(s) : s[n] \in Digits

\* int(text): surrounding whitespace ignored, optional sign, decimal digits;
\* ok = FALSE stands for ValueError
ParseDigits(sign, body) ==
    IF AllDigits(body)
    THEN [ok |-> TRUE, val |-> IF sign = "-" THEN 0 - DigitsValue(body) ELSE DigitsValue(body)]
    ELSE [ok |-> FALSE, val |-> 0]

ParseSigned(t) ==
    IF t # <<>> /\ Head(t) \in {"-", "+"} THEN ParseDigits(Head(t), Tail(t)) ELSE ParseDigits("+", t)

ParseInt(s) == ParseSigned(Strip(s))

RECURSIVE NatToStr(_)
NatToStr(n) == IF n < 10 THEN <<DigitChar[n + 1]>> ELSE NatToStr(n \div 10) \o <<DigitChar[(n % 10) + 1]>>

\* str(n) of an int
IntToStr(n) == IF n < 0 THEN <<"-">> \o NatToStr(0 - n) ELSE NatToStr(n)

(***************************************************************************)
(* Scalars                                                                 *)
(***************************************************************************)
NoneV == [k |-> "none", s |-> <<>>, i |-> 0, b |-> FALSE]

StrV(s) == [k |-> "str", s |-> s, i |-> 0, b |-> FALSE]

IntV(i) == [k |-> "int", s |-> <<>>, i |-> i, b |-> FALSE]

BoolV(b) == [k |-> "bool", s |-> <<>>, i |-> 0, b |-> b]

\* a dict
EmptyDict == <<>>

Put(d, key, v) == [x \in (DOMAIN d) \cup {key} |-> IF x = key THEN v ELSE d[x]]

Has(d, key) == key \in DOMAIN d

(***************************************************************************)
(* types.py                                                                *)
(***************************************************************************)
ControlType == {<<"standard">>, <<"virtual">>}

DependencyType == {<<"control">>}

DependencyLoadType == {<<"onDemand">>}

PlatformActionType == {<<"afterPageLoad">>}

PlatformLibraryName == {<<"React">>, <<"Fluent">>}

PropertyUsage == {<<"bound">>, <<"input">>, <<"output">>}

PropertySetUsage == {<<"bound">>, <<"input">>}

RequiredFor == {<<"schema">>}

ENUM == <<"Enum">>

TypeValue ==
    {<<"Currency">>, <<"DateAndTime", ".", "DateAndTime">>, <<"DateAndTime", ".", "DateOnly">>,
     <<"Decimal">>, ENUM, <<"FP">>, <<"Lookup", ".", "Simple">>, <<"Multiple">>,
     <<"MultiSelectOptionSet">>, <<"Object">>, <<"OptionSet">>,
     <<"SingleLine", ".", "Email">>, <<"SingleLine", ".", "Phone">>,
     <<"SingleLine", ".", "Text">>, <<"SingleLine", ".", "TextArea">>,
     <<"SingleLine", ".", "Ticker">>, <<"SingleLine", ".", "URL">>, <<"TwoOptions">>,
     <<"Whole", ".", "None">>}

UNSUPPORTED_TYPE_VALUES ==
    {<<"Lookup", ".", "Customer">>, <<"Lookup", ".", "Owner">>, <<"Lookup", ".", "PartyList">>,
     <<"Lookup", ".", "Regarding">>, <<"Status", " ", "Reason">>, <<"Status">>,
     <<"Whole", ".", "Duration">>, <<"Whole", ".", "Language">>, <<"Whole", ".", "TimeZone">>}

(***************************************************************************)
(* models.py: the declared fields of every entity.  A field is             *)
(* [name, alias, kind, req, enum, of]: kind "str" is NonEmptyStr, "posint" *)
(* is PositiveInt, "model" a nested entity `of`, "list" a list of `of`.    *)
(* req is TRUE for a field declared without default.                       *)
(***************************************************************************)
F(name, alias, kind, req) == [name |-> name, alias |-> alias, kind |-> kind, req |-> req, enum |-> {}, of |-> ""]

FE(name, alias, enum, req) == [name |-> name, alias |-> alias, kind |-> "enum", req |-> req, enum |-> enum, of |-> ""]

FM(name, alias, kind, of, req) == [name |-> name, alias |-> alias, kind |-> kind, req |-> req, enum |-> {}, of |-> of]

EnumValueFields ==
    <<F("name", "name", "str", TRUE),
      F("display_name_key", "display-name-key", "str", TRUE),
      F("value", "value", "int", TRUE)>>

\* `value: NonEmptyStr` in place of `value: TypeValue`
TypeElementFieldsAnyStr == <<F("value", "value", "str", TRUE)>>

TypeElementFields == <<FE("value", "value", TypeValue, TRUE)>>

TypesElementFields == <<FM("types", "type", "list", "TypeElement", FALSE)>>

TypeGroupFields ==
    <<F("name", "name", "str", TRUE),
      FM("types", "type", "list", "TypeElement", FALSE)>>

CodeFields == <<F("path", "path", "str", TRUE), F("order", "order", "posint", TRUE)>>

CssFields == <<F("path", "path", "str", TRUE), F("order", "order", "posint", FALSE)>>

ImgFields == <<F("path", "path", "str", TRUE)>>

ResxFields == <<F("path", "path", "str", TRUE), F("version", "version", "str", TRUE)>>

PlatformLibraryFields ==
    <<FE("name", "name", PlatformLibraryName, TRUE), F("version", "version", "str", TRUE)>>

DependencyFields ==
    <<FE("type", "type", DependencyType, TRUE),
      F("name", "name", "str", TRUE),
      F("order", "order", "posint", FALSE),
      FE("load_type", "load-type", DependencyLoadType, FALSE)>>

ResourcesFields ==
    <<FM("code", "code", "model", "Code", TRUE),
      FM("css", "css", "list", "Css", FALSE),
      FM("img", "img", "list", "Img", FALSE),
      FM("resx", "resx", "list", "Resx", FALSE),
      FM("platform_library", "platform-library", "list", "PlatformLibrary", FALSE),
      FM("dependency", "dependency", "list", "Dependency", FALSE)>>

DomainFields == <<F("value", "value", "str", TRUE)>>

ExternalServiceUsageFields ==
    <<F("enabled", "enabled", "bool", FALSE),
      FM("domain", "domain", "list", "Domain", FALSE)>>

PlatformActionFields == <<FE("action_type", "action-type", PlatformActionType, FALSE)>>

PropertyDependencyFields ==
    <<F("input", "input", "str", TRUE),
      F("output", "output", "str", TRUE),
      FE("required_for", "required-for", RequiredFor, TRUE)>>

PropertyDependenciesFields ==
    <<FM("property_dependency", "property-dependency", "list", "PropertyDependency", FALSE)>>

UsesFeatureFields == <<F("name", "name", "str", TRUE), F("required", "required", "bool", TRUE)>>

FeatureUsageFields == <<FM("uses_feature", "uses-feature", "list", "UsesFeature", FALSE)>>

EventFields ==
    <<F("name", "name", "str", TRUE),
      F("display_name_key", "display-name-key", "str", FALSE),
      F("description_key", "description-key", "str", FALSE),
      F("pfx_default_value", "pfx-default-value", "str", FALSE)>>

PropertyFields ==
    <<F("name", "name", "str", TRUE),
      F("display_name_key", "display-name-key", "str", FALSE),
      F("description_key", "description-key", "str", FALSE),
      FE("of_type", "of-type", TypeValue, FALSE),
      F("of_type_group", "of-type-group", "str", FALSE),
      FE("usage", "usage", PropertyUsage, FALSE),
      F("required", "required", "bool", FALSE),
      F("default_value", "default-value", "str", FALSE),
      F("pfx_default_value", "pfx-default-value", "str", FALSE),
      FM("types", "types", "model", "TypesElement", FALSE),
      FM("values", "value", "list", "EnumValue", FALSE)>>

PropertySetFields ==
    <<F("name", "name", "str", TRUE),
      F("display_name_key", "display-name-key", "str", TRUE),
      F("description_key", "description-key", "str", FALSE),
      FE("of_type", "of-type", TypeValue, FALSE),
      F("of_type_group", "of-type-group", "str", FALSE),
      FE("usage", "usage", PropertySetUsage, FALSE),
      F("required", "required", "bool", FALSE),
      FM("types", "types", "model", "TypesElement", FALSE)>>

DataSetFields ==
    <<F("name", "name", "str", TRUE),
      F("display_name_key", "display-name-key", "str", TRUE),
      F("description_key", "description-key", "str", FALSE),
      F("cds_data_set_options", "cds-data-set-options", "str", FALSE),
      FM("property_set", "property-set", "list", "PropertySet", FALSE)>>

ControlFields ==
    <<F("namespace", "namespace", "str", TRUE),
      F("constructor", "constructor", "str", TRUE),
      F("version", "version", "str", TRUE),
      F("display_name_key", "display-name-key", "str", TRUE),
      F("description_key", "description-key", "str", FALSE),
      FE("control_type", "control-type", ControlType, FALSE),
      F("preview_image", "preview-image", "str", FALSE),
      FM("property", "property", "list", "Property", FALSE),
      FM("event", "event", "list", "Event", FALSE),
      FM("data_set", "data-set", "list", "DataSet", FALSE),
      FM("type_group", "type-group", "list", "TypeGroup", FALSE),
      FM("property_dependencies", "property-dependencies", "model", "PropertyDependencies", FALSE),
      FM("feature_usage", "feature-usage", "model", "FeatureUsage", FALSE),
      FM("external_service_usage", "external-service-usage", "model", "ExternalServiceUsage", FALSE),
      FM("platform_action", "platform-action", "model", "PlatformAction", FALSE),
      FM("resources", "resources", "model", "Resources", TRUE)>>

ManifestFields == <<FM("control", "control", "model", "Control", TRUE)>>

Fields(E) ==
    CASE E = "EnumValue" -> EnumValueFields
      [] E = "TypeElement" -> TypeElementFields
      [] E = "TypesElement" -> TypesElementFields
      [] E = "TypeGroup" -> TypeGroupFields
      [] E = "Code" -> CodeFields
      [] E = "Css" -> CssFields
      [] E = "Img" -> ImgFields
      [] E = "Resx" -> ResxFields
      [] E = "PlatformLibrary" -> PlatformLibraryFields
      [] E = "Dependency" -> DependencyFields
      [] E = "Resources" -> ResourcesFields
      [] E = "Domain" -> DomainFields
      [] E = "ExternalServiceUsage" -> ExternalServiceUsageFields
      [] E = "PlatformAction" -> PlatformActionFields
      [] E = "PropertyDependency" -> PropertyDependencyFields
      [] E = "PropertyDependencies" -> PropertyDependenciesFields
      [] E = "UsesFeature" -> UsesFeatureFields
      [] E = "FeatureUsage" -> FeatureUsageFields
      [] E = "Event" -> EventFields
      [] E = "Property" -> PropertyFields
      [] E = "PropertySet" -> PropertySetFields
      [] E = "DataSet" -> DataSetFields
      [] E = "Control" -> ControlFields
      [] E = "Manifest" -> ManifestFields

(***************************************************************************)
(* Validation: BaseModel.model_validate under                              *)
(* ConfigDict(populate_by_name=True, extra="forbid").                      *)
(* A violation is [loc, type, msg]; loc is the path of keys and list       *)
(* indexes (an index is written as a string).                              *)
(***************************************************************************)
Err(loc, type, msg) == [loc |-> loc, type |-> type, msg |-> msg]

IdxName(n) == IntToStr(n - 1)[1]

\* bool(x) of a scalar, as in `if self.enabled`, `not self.of_type`
Truthy(v) ==
    CASE v.k = "str" -> v.s # <<>>
      [] v.k = "int" -> v.i # 0
      [] v.k = "bool" -> v.b
      [] OTHER -> FALSE

\* the tokens pydantic reads as a bool in lax mode
BoolTrueTokens == {<<"true">>, <<"1">>, <<"yes">>, <<"on">>, <<"t">>, <<"y">>}

BoolFalseTokens == {<<"false">>, <<"0">>, <<"no">>, <<"off">>, <<"f">>, <<"n">>}

Accepted(v) == [type |-> "", val |-> v]

Rejected(type) == [type |-> type, val |-> NoneV]

IntResult(f, parsed) ==
    IF ~parsed.ok THEN Rejected("int_parsing")
    ELSE IF f.kind = "posint" /\ ~(parsed.val > 0) THEN Rejected("greater_than")
    ELSE Accepted(IntV(parsed.val))

\* The validation of one scalar against its annotation: [type, val], type ""
\* when it is accepted.  Inputs are str, int or bool scalars.
CheckScalar(f, v) ==
    CASE f.kind = "str" ->
            IF v.k # "str" THEN Rejected("string_type")
            ELSE IF Len(v.s) < 1 THEN Rejected("string_too_short")
            ELSE Accepted(v)
      [] f.kind = "enum" ->
            IF v.k = "str" /\ v.s \in f.enum THEN Accepted(v) ELSE Rejected("enum")
      [] f.kind = "bool" ->
            IF v.k = "bool" THEN Accepted(v)
            ELSE IF v.k = "str" /\ Lower(v.s) \in BoolTrueTokens THEN Accepted(BoolV(TRUE))
            ELSE IF v.k = "str" /\ Lower(v.s) \in BoolFalseTokens THEN Accepted(BoolV(FALSE))
            ELSE IF v.k = "int" /\ v.i \in {0, 1} THEN Accepted(BoolV(v.i = 1))
            ELSE Rejected("bool_parsing")
      [] f.kind \in {"int", "posint"} ->
            IntResult(f, IF v.k = "str" THEN ParseInt(v.s) ELSE [ok |-> v.k = "int", val |-> v.i])

\* @field_validator("of_type") of Property and PropertySet
_validate_supported_type(value) ==
    IF value.k = "none" THEN ""
    ELSE IF value.s \in UNSUPPORTED_TYPE_VALUES THEN "Unsupported of-type value"
    ELSE ""

\* the underscore let through, as str.isidentifier() would
_validate_alpha_num_underscore(value) ==
    IF ~IsAlnum(SelectSeq(value.s, LAMBDA c : c # "_"))
    THEN "Value must contain only letters or numbers"
    ELSE ""

\* @field_validator("namespace", "constructor") of Control
_validate_alpha_num(value) ==
    IF ~IsAlnum(value.s) THEN "Value must contain only letters or numbers" ELSE ""

\* the field validators, run on a value its annotation accepted
FieldValidator(E, fname, value) ==
    IF E \in {"Property", "PropertySet"} /\ fname = "of_type" THEN _validate_supported_type(value)
    ELSE IF E = "Control" /\ fname \in {"namespace", "constructor"} THEN _validate_alpha_num(value)
    ELSE ""

\* the test for a missing type left out
Property_validate_type_requirements_enum_only(self) ==
    IF self.of_type = StrV(ENUM) /\ self.values = <<>>
    THEN "Enum properties require at least one value element"
    ELSE ""

\* the Enum test skipped when a type-group is named
Property_validate_type_requirements_ungrouped(self) ==
    IF ~Truthy(self.of_type) /\ ~Truthy(self.of_type_group)
    THEN "property requires of-type or of-type-group"
    ELSE IF self.of_type = StrV(ENUM) /\ ~Truthy(self.of_type_group) /\ self.values = <<>>
    THEN "Enum properties require at least one value element"
    ELSE ""

Property_validate_type_requirements(self) ==
    IF ~Truthy(self.of_type) /\ ~Truthy(self.of_type_group)
    THEN "property requires of-type or of-type-group"
    ELSE IF self.of_type = StrV(ENUM) /\ self.values = <<>>
    THEN "Enum properties require at least one value element"
    ELSE ""

PropertySet_validate_type_requirements(self) ==
    IF ~Truthy(self.of_type) /\ ~Truthy(self.of_type_group)
    THEN "property-set requires of-type or of-type-group"
    ELSE ""

_ensure_not_empty(self) ==
    IF self.types = <<>> THEN "types must include at least one type" ELSE ""

_ensure_types(self) ==
    IF self.types = <<>> THEN "type-group must include at least one type" ELSE ""

\* `self.enabled is not None` in place of `self.enabled`
_enabled_requires_domains_when_set(self) ==
    IF self.enabled.k # "none" /\ self.domain = <<>>
    THEN "enabled external-service-usage requires at least one domain"
    ELSE ""

_enabled_requires_domains(self) ==
    IF Truthy(self.enabled) /\ self.domain = <<>>
    THEN "enabled external-service-usage requires at least one domain"
    ELSE ""

_ensure_dependencies(self) ==
    IF self.property_dependency = <<>>
    THEN "property-dependencies must include at least one property-dependency"
    ELSE ""

\* a feature-usage without a validator of its list
_ensure_uses_feature_lenient(self) == ""

_ensure_uses_feature(self) ==
    IF self.uses_feature = <<>> THEN "feature-usage must include at least one uses-feature" ELSE ""

\* the @model_validator(mode="after") of an entity; "" when it returns self
ModelValidator(E, self) ==
    CASE E = "Property" -> Property_validate_type_requirements(self)
      [] E = "PropertySet" -> PropertySet_validate_type_requirements(self)
      [] E = "TypesElement" -> _ensure_not_empty(self)
      [] E = "TypeGroup" -> _ensure_types(self)
      [] E = "ExternalServiceUsage" -> _enabled_requires_domains(self)
      [] E = "PropertyDependencies" -> _ensure_dependencies(self)
      [] E = "FeatureUsage" -> _ensure_uses_feature(self)
      [] OTHER -> ""

\* populate_by_name left False: a field is looked up under its alias only
KeyOf_alias_only(f, d) == IF Has(d, f.alias) THEN f.alias ELSE ""

\* populate_by_name: the key under which a field is looked up, alias first
KeyOf(f, d) == IF Has(d, f.alias) THEN f.alias ELSE IF Has(d, f.name) THEN f.name ELSE ""

FieldIndex(fs, fname) == CHOOSE n \in 1..Len(fs) : fs[n].name = fname

Result(errs, val) == [errs |-> errs, val |-> val]

\* a scalar its annotation accepted, after its field validator
Validated(at, val, fv) ==
    IF fv # "" THEN Result({Err(at, "value_error", fv)}, NoneV) ELSE Result({}, val)

ScalarResult(E, f, at, c) ==
    IF c.type # "" THEN Result({Err(at, c.type, c.type)}, NoneV)
    ELSE Validated(at, c.val, FieldValidator(E, f.name, c.val))

ListResult(items) ==
    Result(UNION {items[m].errs : m \in 1..Len(items)}, [m \in 1..Len(items) |-> items[m].val])

\* the entity, after its model validator
AfterResult(loc, self, after) ==
    IF after # "" THEN Result({Err(loc, "value_error", after)}, NoneV) ELSE Result({}, self)

\* the after validator runs only when no field failed
Decide(E, loc, fieldErrs, self) ==
    IF fieldErrs # {} THEN Result(fieldErrs, NoneV)
    ELSE AfterResult(loc, self, ModelValidator(E, self))

Collect(E, loc, fs, res, extra) ==
    Decide(E, loc,
           UNION {res[n].errs : n \in 1..Len(fs)} \cup extra,
           [fname \in {fs[n].name : n \in 1..Len(fs)} |-> res[FieldIndex(fs, fname)].val])

\* extra="ignore", what pydantic does when the configuration is silent
ExtraErrors_ignore(fs, d, loc) == {}

\* extra="forbid"
ExtraErrors(fs, d, loc) ==
    {Err(loc \o <<key>>, "extra_forbidden", "Extra inputs are not permitted") :
        key \in (DOMAIN d) \ ({fs[n].alias : n \in 1..Len(fs)} \cup {fs[n].name : n \in 1..Len(fs)})}

\* model_validate(d) of entity E at path loc: [errs, val].  The fields are
\* validated one by one and every violation is collected.
RECURSIVE ValidateModel(_, _, _)

\* the field f, given under `key` ("" when it is not given)
ValidateField(E, f, d, loc, key) ==
    IF key = ""
    THEN IF f.req
         THEN Result({Err(loc \o <<f.alias>>, "missing", "Field required")}, NoneV)
         ELSE Result({}, IF f.kind = "list" THEN <<>> ELSE NoneV)
    ELSE IF f.kind = "model"
    THEN ValidateModel(f.of, d[key], loc \o <<key>>)
    ELSE IF f.kind = "list"
    THEN ListResult([m \in 1..Len(d[key]) |->
                        ValidateModel(f.of, d[key][m], loc \o <<key, IdxName(m)>>)])
    ELSE ScalarResult(E, f, loc \o <<key>>, CheckScalar(f, d[key]))

ValidateFields(E, fs, d, loc) ==
    Collect(E, loc, fs,
            [n \in 1..Len(fs) |-> ValidateField(E, fs[n], d, loc, KeyOf(fs[n], d))],
            ExtraErrors(fs, d, loc))

ValidateModel(E, d, loc) == ValidateFields(E, Fields(E), d, loc)

Accepts(E, d) == ValidateModel(E, d, <<>>).errs = {}

(***************************************************************************)
(* cli.py: manifest.model_dump(by_alias=True, exclude_none=True,           *)
(* exclude_defaults=True, mode="json").  A dumped mapping is the sequence  *)
(* of its <<key, value>> pairs, in the order a Python dict keeps them.     *)
(***************************************************************************)
\* exclude_none and exclude_defaults: every default of models.py is None or
\* the empty list
Excluded(f, v) == v = NoneV \/ (f.kind = "list" /\ v = <<>>)

RECURSIVE model_dump(_, _)
DumpValue(f, v) ==
    IF f.kind = "model" THEN model_dump(f.of, v)
    ELSE IF f.kind = "list" THEN [n \in 1..Len(v) |-> model_dump(f.of, v[n])]
    ELSE v

DumpPair(f, v) == IF Excluded(f, v) THEN <<>> ELSE << <<f.alias, DumpValue(f, v)>> >>

RECURSIVE DumpFields(_, _, _)
DumpFields(fs, entity, n) ==
    IF n > Len(fs) THEN <<>>
    ELSE DumpPair(fs[n], entity[fs[n].name]) \o DumpFields(fs, entity, n + 1)

model_dump(E, entity) == DumpFields(Fields(E), entity, 1)

(***************************************************************************)
(* xml.py: ManifestXmlSerializer                                           *)
(***************************************************************************)
El(tag, attrib, text, children) == [tag |-> <<tag>>, attrib |-> attrib, text |-> text, children |-> children]

\* `x.value if x else None`, `str(x) if x else None`
ValueOrNone(v) == IF Truthy(v) THEN v ELSE NoneV

StrOf(v) == IF v.k = "int" THEN StrV(IntToStr(v.i)) ELSE v

\* `"true" if value else None`: a false treated as an absent value
_bool_value_truthy(value) ==
    IF value.k = "none" THEN NoneV
    ELSE IF value.b THEN StrV(<<"true">>) ELSE NoneV

_bool_value(value) ==
    IF value.k = "none" THEN NoneV
    ELSE IF value.b THEN StrV(<<"true">>) ELSE StrV(<<"false">>)

KeepAttr(pair) == ~(pair[2].k = "none" \/ pair[2] = StrV(<<>>))

_ordered_attribs(pairs) ==
    LET kept == SelectSeq(pairs, KeepAttr)
    IN  [n \in 1..Len(kept) |-> <<kept[n][1], kept[n][2].s>>]

Each(list, Op(_)) == [n \in 1..Len(list) |-> Op(list[n])]

\* `if x: element.append(f(x))` for an optional sub-entity: an entity is truthy
Opt(x, Op(_)) == IF x = NoneV THEN <<>> ELSE <<Op(x)>>

_type_element(type_element) == El("type", <<>>, type_element.value, <<>>)

_types_to_element(types_element) ==
    El("types", <<>>, NoneV, Each(types_element.types, _type_element))

_type_group_to_element(group) ==
    El("type-group", _ordered_attribs(<< <<"name", group.name>> >>), NoneV,
       Each(group.types, _type_element))

_enum_value_to_element(value) ==
    El("value",
       _ordered_attribs(<< <<"name", value.name>>, <<"display-name-key", value.display_name_key>> >>),
       StrOf(value.value), <<>>)

_property_to_element(prop) ==
    El("property",
       _ordered_attribs(<< <<"name", prop.name>>,
                           <<"display-name-key", prop.display_name_key>>,
                           <<"description-key", prop.description_key>>,
                           <<"of-type", ValueOrNone(prop.of_type)>>,
                           <<"of-type-group", prop.of_type_group>>,
                           <<"usage", ValueOrNone(prop.usage)>>,
                           <<"required", _bool_value(prop.required)>>,
                           <<"default-value", prop.default_value>>,
                           <<"pfx-default-value", prop.pfx_default_value>> >>),
       NoneV,
       Opt(prop.types, _types_to_element) \o Each(prop.values, _enum_value_to_element))

_event_to_element(event) ==
    El("event",
       _ordered_attribs(<< <<"name", event.name>>,
                           <<"pfx-default-value", event.pfx_default_value>>,
                           <<"display-name-key", event.display_name_key>>,
                           <<"description-key", event.description_key>> >>),
       NoneV, <<>>)

_property_set_to_element(prop_set) ==
    El("property-set",
       _ordered_attribs(<< <<"name", prop_set.name>>,
                           <<"display-name-key", prop_set.display_name_key>>,
                           <<"description-key", prop_set.description_key>>,
                           <<"of-type", ValueOrNone(prop_set.of_type)>>,
                           <<"of-type-group", prop_set.of_type_group>>,
                           <<"usage", ValueOrNone(prop_set.usage)>>,
                           <<"required", _bool_value(prop_set.required)>> >>),
       NoneV, Opt(prop_set.types, _types_to_element))

_dataset_to_element(dataset) ==
    El("data-set",
       _ordered_attribs(<< <<"name", dataset.name>>,
                           <<"display-name-key", dataset.display_name_key>>,
                           <<"description-key", dataset.description_key>>,
                           <<"cds-data-set-options", dataset.cds_data_set_options>> >>),
       NoneV, Each(dataset.property_set, _property_set_to_element))

_property_dependency_to_element(dep) ==
    El("property-dependency",
       _ordered_attribs(<< <<"input", dep.input>>, <<"output", dep.output>>,
                           <<"required-for", dep.required_for>> >>),
       NoneV, <<>>)

_property_dependencies_to_element(deps) ==
    El("property-dependencies", <<>>, NoneV,
       Each(deps.property_dependency, _property_dependency_to_element))

_uses_feature_to_element(feature) ==
    El("uses-feature",
       _ordered_attribs(<< <<"name", feature.name>>, <<"required", _bool_value(feature.required)>> >>),
       NoneV, <<>>)

_feature_usage_to_element(usage) ==
    El("feature-usage", <<>>, NoneV, Each(usage.uses_feature, _uses_feature_to_element))

_domain_to_element(domain) == El("domain", <<>>, domain.value, <<>>)

_external_service_usage_to_element(usage) ==
    El("external-service-usage",
       _ordered_attribs(<< <<"enabled", _bool_value(usage.enabled)>> >>),
       NoneV, Each(usage.domain, _domain_to_element))

_platform_action_to_element(action) ==
    El("platform-action",
       _ordered_attribs(<< <<"action-type", ValueOrNone(action.action_type)>> >>), NoneV, <<>>)

_code_to_element(code) ==
    El("code", _ordered_attribs(<< <<"path", code.path>>, <<"order", StrOf(code.order)>> >>),
       NoneV, <<>>)

_css_to_element(css) ==
    El("css",
       _ordered_attribs(<< <<"path", css.path>>, <<"order", StrOf(ValueOrNone(css.order))>> >>),
       NoneV, <<>>)

_img_to_element(img) == El("img", _ordered_attribs(<< <<"path", img.path>> >>), NoneV, <<>>)

_resx_to_element(resx) ==
    El("resx", _ordered_attribs(<< <<"path", resx.path>>, <<"version", resx.version>> >>),
       NoneV, <<>>)

_platform_library_to_element(library) ==
    El("platform-library",
       _ordered_attribs(<< <<"name", library.name>>, <<"version", library.version>> >>),
       NoneV, <<>>)

_dependency_to_element(dependency) ==
    El("dependency",
       _ordered_attribs(<< <<"type", dependency.type>>,
                           <<"name", dependency.name>>,
                           <<"order", StrOf(ValueOrNone(dependency.order))>>,
                           <<"load-type", ValueOrNone(dependency.load_type)>> >>),
       NoneV, <<>>)

\* the style sheets after the string tables
_resources_to_element_resx_first(resources) ==
    El("resources", <<>>, NoneV,
       <<_code_to_element(resources.code)>>
       \o Each(resources.resx, _resx_to_element)
       \o Each(resources.css, _css_to_element)
       \o Each(resources.img, _img_to_element)
       \o Each(resources.platform_library, _platform_library_to_element)
       \o Each(resources.dependency, _dependency_to_element))

_resources_to_element(resources) ==
    El("resources", <<>>, NoneV,
       <<_code_to_element(resources.code)>>
       \o Each(resources.css, _css_to_element)
       \o Each(resources.resx, _resx_to_element)
       \o Each(resources.img, _img_to_element)
       \o Each(resources.platform_library, _platform_library_to_element)
       \o Each(resources.dependency, _dependency_to_element))

_control_to_element(control) ==
    El("control",
       _ordered_attribs(<< <<"namespace", control.namespace>>,
                           <<"constructor", control.constructor>>,
                           <<"version", control.version>>,
                           <<"display-name-key", control.display_name_key>>,
                           <<"description-key", control.description_key>>,
                           <<"control-type", ValueOrNone(control.control_type)>>,
                           <<"preview-image", control.preview_image>> >>),
       NoneV,
       Each(control.property, _property_to_element)
       \o Each(control.event, _event_to_element)
       \o Each(control.data_set, _dataset_to_element)
       \o Each(control.type_group, _type_group_to_element)
       \o Opt(control.property_dependencies, _property_dependencies_to_element)
       \o Opt(control.feature_usage, _feature_usage_to_element)
       \o Opt(control.external_service_usage, _external_service_usage_to_element)
       \o Opt(control.platform_action, _platform_action_to_element)
       \o <<_resources_to_element(control.resources)>>)

_manifest_to_element(m) == El("manifest", <<>>, NoneV, <<_control_to_element(m.control)>>)

Spaces(n) == [m \in 1..n |-> " "]

IndentWidth == 3

\* ET.indent(tree, space="   "): an element with children, and no text but
\* whitespace, gets the line break and the indentation of its children as text
RECURSIVE Indent(_, _)
Indent(el, level) ==
    IF el.children = <<>> THEN el
    ELSE [el EXCEPT
            !.text = IF ~Truthy(el.text) \/ Strip(el.text.s) = <<>>
                     THEN StrV(<<"\n">> \o Spaces(IndentWidth * (level + 1)))
                     ELSE el.text,
            !.children = [n \in 1..Len(el.children) |-> Indent(el.children[n], level + 1)]]

\* ManifestXmlSerializer.to_string; the document text is represented by the
\* tree ET.tostring writes
to_string(m) == Indent(_manifest_to_element(m), 0)

(***************************************************************************)
(* xml_import.py                                                           *)
(***************************************************************************)
\* ET.fromstring of a document text: an element written with empty text is
\* read back with text None, everything else of (tag, attrib, text,
\* children) is what was written
RECURSIVE fromstring(_)
fromstring(el) ==
    [el EXCEPT !.text = IF el.text = StrV(<<>>) THEN NoneV ELSE el.text,
               !.children = [n \in 1..Len(el.children) |-> fromstring(el.children[n])]]

\* s.split(a, 1)[1]: what follows the first a
RECURSIVE AfterFirst(_, _)
AfterFirst(s, a) == IF Head(s) = a THEN Tail(s) ELSE AfterFirst(Tail(s), a)

Contains(s, a) == \E n \in 1..Len(s) : s[n] = a

\* the tag compared as the parser reports it
_strip_ns_keep(tag) == tag

_strip_ns(tag) == IF Contains(tag, "}") THEN AfterFirst(tag, "}") ELSE tag

\* the children whose tag as the parser reports it is the tag looked for
_children_qualified(parent, tag) == SelectSeq(parent.children, LAMBDA child : child.tag = <<tag>>)

_children(parent, tag) == SelectSeq(parent.children, LAMBDA child : _strip_ns(child.tag) = <<tag>>)

FirstOrNone(els) == IF els = <<>> THEN NoneV ELSE els[1]

\* the last child of that tag in place of the first
_last_child(parent, tag) ==
    IF _children(parent, tag) = <<>> THEN NoneV
    ELSE _children(parent, tag)[Len(_children(parent, tag))]

\* NoneV when there is no such child
_first_child(parent, tag) == FirstOrNone(_children(parent, tag))

\* `attr in element.attrib` and element.attrib[attr]
AttrHas(element, attr) == \E n \in 1..Len(element.attrib) : element.attrib[n][1] = attr

AttrGet(element, attr) ==
    element.attrib[CHOOSE n \in 1..Len(element.attrib) : element.attrib[n][1] = attr][2]

\* the value stored whatever it is
PutStrAlways(target, attr, value) == Put(target, attr, StrV(value))

PutStr(target, attr, value) == IF value # <<>> THEN Put(target, attr, StrV(value)) ELSE target

_set_attr(target, element, attr) ==
    IF AttrHas(element, attr) THEN PutStr(target, attr, AttrGet(element, attr)) ELSE target

\* a token that is not true/false kept as it is, as _set_int_attr keeps one
PutBoolOrRaw(target, attr, value) ==
    IF value \in {<<"true">>, <<"false">>} THEN Put(target, attr, BoolV(value = <<"true">>))
    ELSE Put(target, attr, StrV(value))

PutBool(target, attr, value) ==
    IF value \in {<<"true">>, <<"false">>} THEN Put(target, attr, BoolV(value = <<"true">>))
    ELSE target

\* the text compared as it is, neither trimmed nor lowercased
_set_bool_attr_exact(target, element, attr) ==
    IF AttrHas(element, attr) THEN PutBool(target, attr, AttrGet(element, attr))
    ELSE target

_set_bool_attr(target, element, attr) ==
    IF AttrHas(element, attr) THEN PutBool(target, attr, Lower(Strip(AttrGet(element, attr))))
    ELSE target

\* text that is not an integer discarded
PutIntOrDrop(target, attr, raw, parsed) ==
    IF parsed.ok THEN Put(target, attr, IntV(parsed.val)) ELSE target

\* try: target[attr] = int(raw); except ValueError: target[attr] = raw
PutIntOrRaw(target, attr, raw, parsed) ==
    IF parsed.ok THEN Put(target, attr, IntV(parsed.val)) ELSE Put(target, attr, StrV(raw))

PutInt(target, attr, raw) ==
    IF raw = <<>> THEN target ELSE PutIntOrRaw(target, attr, raw, ParseInt(raw))

_set_int_attr(target, element, attr) ==
    IF AttrHas(element, attr) THEN PutInt(target, attr, Strip(AttrGet(element, attr))) ELSE target

\* for attr in (...): _set_attr(data, el, attr)
RECURSIVE SetAttrs(_, _, _)
SetAttrs(target, element, attrs) ==
    IF attrs = <<>> THEN target
    ELSE SetAttrs(_set_attr(target, element, Head(attrs)), element, Tail(attrs))

\* (el.text or "").strip()
TextOf(el) == Strip(IF Truthy(el.text) THEN el.text.s ELSE <<>>)

\* `if values: data[key] = values`
PutNonEmpty(d, key, list) == IF list # <<>> THEN Put(d, key, list) ELSE d

\* the text of the value kept as a string, whatever it is
_parse_value_raw(value_el) ==
    PutStr(SetAttrs(EmptyDict, value_el, <<"name", "display-name-key">>), "value", TextOf(value_el))

_parse_value(value_el) ==
    PutInt(SetAttrs(EmptyDict, value_el, <<"name", "display-name-key">>), "value", TextOf(value_el))

HasText(el) == TextOf(el) # <<>>

TextItem(el) == [value |-> StrV(TextOf(el))]

\* one {"value": text} per child, with text or not
TextItems_all(el, tag) == Each(_children(el, tag), TextItem)

\* the loop shared by _parse_types, _parse_type_group and
\* _parse_external_service_usage: one {"value": text} per child with text
TextItems(el, tag) == Each(SelectSeq(_children(el, tag), HasText), TextItem)

_parse_types(types_el) == [type |-> TextItems(types_el, "type")]

_parse_type_group(type_group_el) ==
    Put(_set_attr(EmptyDict, type_group_el, "name"), "type", TextItems(type_group_el, "type"))

\* `if x is not None: data[tag] = parse(x)`
PutParsed(d, tag, x, Parse(_)) == IF x # NoneV THEN Put(d, tag, Parse(x)) ELSE d

\* `x = _first_child(el, tag); if x is not None: data[tag] = parse(x)`
PutChild(d, el, tag, Parse(_)) == PutParsed(d, tag, _first_child(el, tag), Parse)

_parse_property(property_el) ==
    LET d1 == SetAttrs(EmptyDict, property_el,
                       <<"name", "display-name-key", "description-key", "of-type",
                         "of-type-group", "usage", "default-value", "pfx-default-value">>)
        d2 == _set_bool_attr(d1, property_el, "required")
        d3 == PutChild(d2, property_el, "types", _parse_types)
    IN  PutNonEmpty(d3, "value", Each(_children(property_el, "value"), _parse_value))

\* dict(event_el.attrib): every attribute of the element taken over
_parse_event_all(event_el) ==
    [attr \in {event_el.attrib[n][1] : n \in 1..Len(event_el.attrib)} |->
        StrV(AttrGet(event_el, attr))]

_parse_event(event_el) ==
    SetAttrs(EmptyDict, event_el, <<"name", "display-name-key", "description-key", "pfx-default-value">>)

_parse_property_set(prop_set_el) ==
    LET d1 == SetAttrs(EmptyDict, prop_set_el,
                       <<"name", "display-name-key", "description-key", "of-type",
                         "of-type-group", "usage">>)
        d2 == _set_bool_attr(d1, prop_set_el, "required")
    IN  PutChild(d2, prop_set_el, "types", _parse_types)

_parse_dataset(dataset_el) ==
    Put(SetAttrs(EmptyDict, dataset_el,
                 <<"name", "display-name-key", "description-key", "cds-data-set-options">>),
        "property-set", Each(_children(dataset_el, "property-set"), _parse_property_set))

_parse_property_dependency(dep_el) == SetAttrs(EmptyDict, dep_el, <<"input", "output", "required-for">>)

_parse_property_dependencies(deps_el) ==
    Put(EmptyDict, "property-dependency",
        Each(_children(deps_el, "property-dependency"), _parse_property_dependency))

_parse_uses_feature(use_el) ==
    _set_bool_attr(_set_attr(EmptyDict, use_el, "name"), use_el, "required")

_parse_feature_usage(feature_el) ==
    Put(EmptyDict, "uses-feature", Each(_children(feature_el, "uses-feature"), _parse_uses_feature))

_parse_external_service_usage(usage_el) ==
    PutNonEmpty(_set_bool_attr(EmptyDict, usage_el, "enabled"), "domain", TextItems(usage_el, "domain"))

_parse_platform_action(action_el) == _set_attr(EmptyDict, action_el, "action-type")

_parse_code(code_el) == _set_int_attr(_set_attr(EmptyDict, code_el, "path"), code_el, "order")

_parse_css(css_el) == _set_int_attr(_set_attr(EmptyDict, css_el, "path"), css_el, "order")

_parse_img(img_el) == _set_attr(EmptyDict, img_el, "path")

_parse_resx(resx_el) == SetAttrs(EmptyDict, resx_el, <<"path", "version">>)

_parse_platform_library(lib_el) == SetAttrs(EmptyDict, lib_el, <<"name", "version">>)

_parse_dependency(dep_el) ==
    _set_attr(_set_int_attr(SetAttrs(EmptyDict, dep_el, <<"type", "name">>), dep_el, "order"),
              dep_el, "load-type")

_parse_resources(resources_el) ==
    LET d1 == PutChild(EmptyDict, resources_el, "code", _parse_code)
        d2 == Put(d1, "css", Each(_children(resources_el, "css"), _parse_css))
        d3 == Put(d2, "img", Each(_children(resources_el, "img"), _parse_img))
        d4 == Put(d3, "resx", Each(_children(resources_el, "resx"), _parse_resx))
        d5 == Put(d4, "platform-library",
                  Each(_children(resources_el, "platform-library"), _parse_platform_library))
    IN  Put(d5, "dependency", Each(_children(resources_el, "dependency"), _parse_dependency))

_parse_control(control_el) ==
    LET d1 == SetAttrs(EmptyDict, control_el,
                       <<"namespace", "constructor", "version", "display-name-key",
                         "description-key", "control-type", "preview-image">>)
        d2 == Put(d1, "property", Each(_children(control_el, "property"), _parse_property))
        d3 == Put(d2, "event", Each(_children(control_el, "event"), _parse_event))
        d4 == Put(d3, "data-set", Each(_children(control_el, "data-set"), _parse_dataset))
        d5 == Put(d4, "type-group", Each(_children(control_el, "type-group"), _parse_type_group))
        d6 == PutChild(d5, control_el, "property-dependencies", _parse_property_dependencies)
        d7 == PutChild(d6, control_el, "feature-usage", _parse_feature_usage)
        d8 == PutChild(d7, control_el, "external-service-usage", _parse_external_service_usage)
        d9 == PutChild(d8, control_el, "platform-action", _parse_platform_action)
    IN  PutChild(d9, control_el, "resources", _parse_resources)

NoData == EmptyDict

NoException == [cls |-> "", msg |-> ""]

\* [raised, data]: raised is the exception the function raises, NoException
\* when it returns; data is the returned dict
Raise(cls, msg) == [raised |-> [cls |-> cls, msg |-> msg], data |-> NoData]

Return(d) == [raised |-> NoException, data |-> d]

\* a control without its constructor attribute refused by the importer
ControlOrRaise_strict(control_el) ==
    IF control_el = NoneV THEN Raise("ValueError", "Manifest must contain a <control> element.")
    ELSE IF ~AttrHas(control_el, "constructor")
    THEN Raise("ValueError", "Control must have a constructor.")
    ELSE Return([control |-> _parse_control(control_el)])

ControlOrRaise(control_el) ==
    IF control_el = NoneV THEN Raise("ValueError", "Manifest must contain a <control> element.")
    ELSE Return([control |-> _parse_control(control_el)])

parse_manifest_xml_element(root) ==
    IF _strip_ns(root.tag) # <<"manifest">>
    THEN Raise("ValueError", "Root element must be <manifest>.")
    ELSE ControlOrRaise(_first_child(root, "control"))

parse_manifest_xml_text(xml_text) == parse_manifest_xml_element(fromstring(xml_text))

(***************************************************************************)
(* Inputs                                                                  *)
(***************************************************************************)
MaxTypes == 2

MaxDomains == 2

MaxValues == 1

MaxChildren == 2

SeqsUpTo(S, n) == UNION {[1..m -> S] : m \in 0..n}

\* a dict from a sequence of <<key, value>> pairs with distinct keys
Dict(ps) ==
    [key \in {ps[n][1] : n \in 1..Len(ps)} |->
        ps[CHOOSE n \in 1..Len(ps) : ps[n][1] = key][2]]

\* the ways to give a key: not at all, or with one of the values of vs
Opts(key, vs) == {<<>>} \cup {<< <<key, v>> >> : v \in vs}

S1(a) == StrV(<<a>>)

WholeNone == <<"Whole", ".", "None">>

LookupCustomer == <<"Lookup", ".", "Customer">>

StatusReason == <<"Status", " ", "Reason">>

OfTypeSamples == {StrV(WholeNone), StrV(ENUM), StrV(LookupCustomer), StrV(StatusReason), S1("Bogus")}

TypeItemSamples ==
    {[value |-> S1("Currency")], [value |-> StrV(LookupCustomer)], [value |-> S1("Bogus")]}

EnumValueSamples ==
    {Dict(<< <<"name", S1("a")>>, <<"display-name-key", S1("A")>>, <<"value", IntV(1)>> >>)}

PropertyInputs ==
    {Dict(n \o t \o g \o r \o v) :
        n \in Opts("name", {S1("p")}),
        t \in Opts("of-type", OfTypeSamples),
        g \in Opts("of-type-group", {S1("g")}),
        r \in Opts("required", {BoolV(TRUE)}),
        v \in Opts("value", SeqsUpTo(EnumValueSamples, MaxValues))}

PropertySetInputs ==
    {Dict(n \o k \o t \o g \o u) :
        n \in Opts("name", {S1("c")}),
        k \in Opts("display-name-key", {S1("C")}),
        t \in Opts("of-type", OfTypeSamples),
        g \in Opts("of-type-group", {S1("g")}),
        u \in Opts("usage", {S1("bound"), S1("output")})}

TypeGroupInputs ==
    {Dict(n \o t) :
        n \in Opts("name", {S1("g")}),
        t \in Opts("type", SeqsUpTo(TypeItemSamples, MaxTypes))}

TypesElementInputs == {Dict(t) : t \in Opts("type", SeqsUpTo(TypeItemSamples, MaxTypes))}

DomainItemSamples ==
    {[value |-> S1("a")], [value |-> StrV(<<" ", "b", " ">>)], [value |-> StrV(<<" ">>)],
     [value |-> StrV(<<>>)]}

ExternalServiceUsageInputs ==
    {Dict(e \o d) :
        e \in Opts("enabled", {BoolV(TRUE), BoolV(FALSE)}),
        d \in Opts("domain", SeqsUpTo(DomainItemSamples, MaxDomains))}

PropertyDependencySamples ==
    {Dict(<< <<"input", S1("p")>>, <<"output", S1("q")>>, <<"required-for", S1("schema")>> >>),
     Dict(<< <<"input", S1("p")>>, <<"required-for", S1("schema")>> >>)}

PropertyDependenciesInputs ==
    {Dict(d) : d \in Opts("property-dependency", SeqsUpTo(PropertyDependencySamples, MaxChildren))}

UsesFeatureSamples == {[name |-> S1("f"), required |-> BoolV(FALSE)], [name |-> S1("h")]}

FeatureUsageInputs ==
    {Dict(u) : u \in Opts("uses-feature", SeqsUpTo(UsesFeatureSamples, MaxChildren))}

\* letters, letters and digits, and strings with a hyphen, a space, an
\* underscore, a dot, a colon; the empty string
NameSamples ==
    {S1("Sample"), StrV(<<"Abc", "1">>), StrV(<<"Bad", "-", "Name">>), StrV(<<"a", " ", "b">>),
     StrV(<<"a", "_", "b">>), StrV(<<"a", ".", "b">>), StrV(<<"a", ":">>), StrV(<<>>)}

ControlNameInputs ==
    {Dict(<< <<"namespace", ns>>, <<"constructor", c>>, <<"version", S1("1.0.0")>>,
             <<"display-name-key", S1("Display")>>, <<"control-type", S1("virtual")>>,
             <<"resources", [code |-> [path |-> S1("index.ts"), order |-> IntV(1)]]>> >>) :
        ns \in NameSamples, c \in NameSamples}

EntityInputs(E) ==
    CASE E = "Property" -> PropertyInputs
      [] E = "PropertySet" -> PropertySetInputs
      [] E = "TypeGroup" -> TypeGroupInputs
      [] E = "TypesElement" -> TypesElementInputs
      [] E = "ExternalServiceUsage" -> ExternalServiceUsageInputs
      [] E = "PropertyDependencies" -> PropertyDependenciesInputs
      [] E = "FeatureUsage" -> FeatureUsageInputs
      [] E = "Control" -> ControlNameInputs

(***************************************************************************)
(* SpecValidate: one entity is constructed from plain data.  The plain     *)
(* data is the input of the run; the action is E.model_validate(data).     *)
(***************************************************************************)
Entities ==
    {"Property", "PropertySet", "TypeGroup", "TypesElement", "ExternalServiceUsage",
     "PropertyDependencies", "FeatureUsage", "Control"}

InitValidate ==
    /\ pc = "start"
    /\ klass \in Entities
    /\ data \in EntityInputs(klass)
    /\ model = NoneV
    /\ errors = {}
    /\ xml = NoneV
    /\ imported = EmptyDict
    /\ raised = [cls |-> "", msg |-> ""]
    /\ model2 = NoneV
    /\ errors2 = {}
    /\ xml2 = NoneV
    /\ dumped = NoneV
    /\ proxy = NoneV

\* E.model_validate(data)
Construct(E) ==
    LET r == ValidateModel(E, data, <<>>)
    IN  /\ pc = "start"
        /\ klass = E
        /\ model' = r.val
        /\ errors' = r.errs
        /\ pc' = IF r.errs = {} THEN "valid" ELSE "invalid"
        /\ UNCHANGED <<klass, data, xml, imported, raised, model2, errors2, xml2, dumped, proxy>>

ValidateProperty == Construct("Property")

ValidatePropertySet == Construct("PropertySet")

ValidateTypeGroup == Construct("TypeGroup")

ValidateTypesElement == Construct("TypesElement")

ValidateExternalServiceUsage == Construct("ExternalServiceUsage")

ValidatePropertyDependencies == Construct("PropertyDependencies")

ValidateFeatureUsage == Construct("FeatureUsage")

ValidateControl == Construct("Control")

NextValidate ==
    \/ ValidateProperty
    \/ ValidatePropertySet
    \/ ValidateTypeGroup
    \/ ValidateTypesElement
    \/ ValidateExternalServiceUsage
    \/ ValidatePropertyDependencies
    \/ ValidateFeatureUsage
    \/ ValidateControl

SpecValidate == InitValidate /\ [][NextValidate]_vars

(***************************************************************************)
(* Properties of validation (SpecValidate)                                 *)
(***************************************************************************)
Validated1 == pc \in {"valid", "invalid"}

TypedEntities == {"Property", "PropertySet"}

TypeListEntities == {"TypeGroup", "TypesElement"}

Without(d, keys) == [x \in (DOMAIN d) \ keys |-> d[x]]

ListAt(d, key) == IF Has(d, key) THEN d[key] ELSE <<>>

NoTypeGiven(d) == ~Has(d, "of-type") /\ ~Has(d, "of-type-group")

OfTypeIs(d, tokens) == Has(d, "of-type") /\ d["of-type"].s \in tokens

\* d with a supported, non-Enum of-type as its only type field: d is
\* "otherwise valid" when validation accepts that
OtherwiseValid(E, d) ==
    Accepts(E, Put(Without(d, {"of-type", "of-type-group"}), "of-type", StrV(WholeNone)))

ErrorAt(errs, loc, type) == \E e \in errs : e.loc = loc /\ e.type = type

\* C3 as stated: a denylisted scalar of-type is rejected, whereas a
\* TypeGroup or TypesElement whose type list holds a denylisted token (and
\* is otherwise valid) is accepted.
DenylistAsymmetry ==
    Validated1 =>
        /\ (klass \in TypedEntities /\ OfTypeIs(data, UNSUPPORTED_TYPE_VALUES)) => errors # {}
        /\ ( /\ klass \in TypeListEntities
             /\ klass = "TypeGroup" => Has(data, "name")
             /\ ListAt(data, "type") # <<>>
             /\ \A n \in 1..Len(ListAt(data, "type")) :
                    ListAt(data, "type")[n].value.s \in TypeValue \cup UNSUPPORTED_TYPE_VALUES
             /\ \E n \in 1..Len(ListAt(data, "type")) :
                    ListAt(data, "type")[n].value.s \in UNSUPPORTED_TYPE_VALUES )
           => errors = {}

\* C3 amended: a denylisted token is rejected in both places, as the scalar
\* of-type of a Property or PropertySet and as a type element of a TypeGroup
\* or TypesElement, with a violation at the place of the token.
DenylistLaw ==
    Validated1 =>
        /\ (klass \in TypedEntities /\ OfTypeIs(data, UNSUPPORTED_TYPE_VALUES))
              => \E e \in errors : e.loc = <<"of-type">>
        /\ klass \in TypeListEntities =>
              \A n \in 1..Len(ListAt(data, "type")) :
                  ListAt(data, "type")[n].value.s \in UNSUPPORTED_TYPE_VALUES
                      => ErrorAt(errors, <<"type", IdxName(n), "value">>, "enum")

DenylistWitness ==
    /\ pc = "invalid"
    /\ klass = "TypeGroup"
    /\ data = Dict(<< <<"name", S1("g")>>, <<"type", <<[value |-> StrV(LookupCustomer)]>> >> >>)

\* C4 as stated: the ValidationError holds an entry for every violation of
\* the plain data, the field-level ones (a missing name, a bad of-type
\* token) and the cross-field ones (neither of-type nor of-type-group, an
\* empty type list, enabled without domain) alike.
BatchErrorReporting ==
    Validated1 =>
        /\ (klass \in TypedEntities \cup {"TypeGroup"} /\ ~Has(data, "name"))
              => ErrorAt(errors, <<"name">>, "missing")
        /\ (klass \in TypedEntities /\ Has(data, "of-type") /\ ~OfTypeIs(data, TypeValue))
              => ErrorAt(errors, <<"of-type">>, "enum")
        /\ (klass \in TypedEntities /\ NoTypeGiven(data)) => ErrorAt(errors, <<>>, "value_error")
        /\ (klass \in TypeListEntities /\ ListAt(data, "type") = <<>>)
              => ErrorAt(errors, <<>>, "value_error")

\* C5: a Property or PropertySet with neither of-type nor of-type-group is
\* rejected; an otherwise valid one with of-type only, of-type-group only or
\* both is accepted.
TypeRequirementLaw ==
    (Validated1 /\ klass \in TypedEntities) =>
        /\ NoTypeGiven(data) => errors # {}
        /\ ( /\ ~NoTypeGiven(data)
             /\ OtherwiseValid(klass, data)
             /\ Has(data, "of-type") => OfTypeIs(data, TypeValue)
             /\ (klass = "Property" /\ OfTypeIs(data, {ENUM})) => ListAt(data, "value") # <<>> )
           => errors = {}

TypeRequirementWitness ==
    /\ pc = "invalid"
    /\ klass = "PropertySet"
    /\ NoTypeGiven(data)
    /\ OtherwiseValid(klass, data)

\* C6: a Property with of-type Enum is rejected when it has no value entry
\* and, when otherwise valid, accepted with at least one, whether or not
\* of-type-group is given.
EnumerationLaw ==
    (Validated1 /\ klass = "Property" /\ OfTypeIs(data, {ENUM})) =>
        /\ ListAt(data, "value") = <<>> => errors # {}
        /\ (ListAt(data, "value") # <<>> /\ OtherwiseValid(klass, data)) => errors = {}

EnumerationWitness ==
    /\ pc = "invalid"
    /\ klass = "Property"
    /\ OfTypeIs(data, {ENUM})
    /\ Has(data, "of-type-group")
    /\ ListAt(data, "value") = <<>>
    /\ OtherwiseValid(klass, data)

DomainsValid(d) == \A n \in 1..Len(ListAt(d, "domain")) : ListAt(d, "domain")[n].value.s # <<>>

EnabledGiven(d) == Has(d, "enabled") /\ d["enabled"] = BoolV(TRUE)

\* C7: ExternalServiceUsage with enabled true and no domain is rejected;
\* with enabled true and at least one domain it is accepted; with enabled
\* false or absent and no domain it is accepted.
ExternalServiceLaw ==
    (Validated1 /\ klass = "ExternalServiceUsage") =>
        /\ (EnabledGiven(data) /\ ListAt(data, "domain") = <<>>) => errors # {}
        /\ (EnabledGiven(data) /\ ListAt(data, "domain") # <<>> /\ DomainsValid(data)) => errors = {}
        /\ (~EnabledGiven(data) /\ ListAt(data, "domain") = <<>>) => errors = {}

ExternalServiceWitness ==
    /\ pc = "invalid"
    /\ klass = "ExternalServiceUsage"
    /\ EnabledGiven(data)
    /\ ListAt(data, "domain") = <<>>

(***************************************************************************)
(* Spec: a manifest given as plain data is validated, serialized to XML,   *)
(* imported back and validated again (cli.py `generate`, `import-xml`;     *)
(* tests/test_cli_tools.py test_manifest_xml_roundtrip)                    *)
(***************************************************************************)
Version100 == StrV(<<"1", ".", "0", ".", "0">>)

IndexTs == StrV(<<"index", ".", "ts">>)

PropertySamples ==
    {Dict(<< <<"name", S1("p")>>, <<"of-type", StrV(WholeNone)>>, <<"usage", S1("bound")>>,
             <<"required", BoolV(FALSE)>> >>),
     Dict(<< <<"name", S1("e")>>, <<"display-name-key", StrV(<<" ", "E", " ">>)>>,
             <<"of-type", StrV(ENUM)>>,
             <<"types", [type |-> <<[value |-> S1("FP")]>>]>>,
             <<"value", <<Dict(<< <<"name", S1("a")>>, <<"display-name-key", S1("A")>>,
                                  <<"value", IntV(-12)>> >>)>> >> >>),
     Dict(<< <<"name", S1("q")>>, <<"display-name-key", S1("Q")>>,
             <<"description-key", S1("QD")>>, <<"of-type", StrV(WholeNone)>>,
             <<"of-type-group", S1("g")>>, <<"usage", S1("input")>>,
             <<"required", BoolV(TRUE)>>,
             <<"default-value", StrV(<<" ", "x", "\n">>)>>,
             <<"pfx-default-value", S1("f")>> >>)}

CodeSample == [path |-> IndexTs, order |-> IntV(1)]

MinimalResources == [code |-> CodeSample]

FullResources ==
    Dict(<< <<"code", [path |-> IndexTs, order |-> IntV(10)]>>,
            <<"css", <<[path |-> S1("a"), order |-> IntV(2)], [path |-> S1("b")]>> >>,
            <<"img", <<[path |-> S1("i")]>> >>,
            <<"resx", <<[path |-> S1("r"), version |-> Version100]>> >>,
            <<"platform-library", <<[name |-> S1("React"), version |-> Version100]>> >>,
            <<"dependency",
              <<Dict(<< <<"type", S1("control")>>, <<"name", S1("d")>>, <<"order", IntV(3)>>,
                        <<"load-type", S1("onDemand")>> >>)>> >> >>)

\* the other children of a control, all given at once
FullExtras ==
    << <<"description-key", S1("D")>>,
       <<"control-type", S1("virtual")>>,
       <<"preview-image", S1("img")>>,
       <<"event", <<Dict(<< <<"name", S1("ev")>>, <<"display-name-key", S1("EV")>>,
                            <<"description-key", S1("ED")>>,
                            <<"pfx-default-value", S1("f")>> >>),
                    [name |-> S1("ev2")]>> >>,
       <<"data-set",
         <<Dict(<< <<"name", S1("ds")>>, <<"display-name-key", S1("DS")>>,
                   <<"description-key", S1("DD")>>, <<"cds-data-set-options", S1("o")>>,
                   <<"property-set",
                     <<Dict(<< <<"name", S1("c")>>, <<"display-name-key", S1("C")>>,
                               <<"description-key", S1("CD")>>, <<"usage", S1("bound")>>,
                               <<"of-type", StrV(WholeNone)>>, <<"required", BoolV(FALSE)>>,
                               <<"types", [type |-> <<[value |-> S1("FP")]>>]>> >>)>> >>
                >>)>> >>,
       <<"type-group", <<[name |-> S1("g"), type |-> <<[value |-> S1("Currency")]>>]>> >>,
       <<"property-dependencies",
         Dict(<< <<"property-dependency",
                   <<Dict(<< <<"input", S1("p")>>, <<"output", S1("q")>>,
                             <<"required-for", S1("schema")>> >>)>> >> >>)>>,
       <<"feature-usage",
         Dict(<< <<"uses-feature", <<[name |-> S1("f"), required |-> BoolV(FALSE)],
                                     [name |-> S1("h"), required |-> BoolV(TRUE)]>> >> >>)>>,
       <<"platform-action", Dict(<< <<"action-type", S1("afterPageLoad")>> >>)>>,
       <<"resources", FullResources>> >>

MinimalExtras == << <<"resources", MinimalResources>> >>

NamespaceSamples == {S1("Sample"), StrV(<<"Bad", "-", "Name">>)}

ControlInputs ==
    {Dict(<< <<"namespace", ns>>, <<"constructor", S1("SampleControl")>>,
             <<"version", Version100>>, <<"display-name-key", S1("K")>> >>
          \o p \o u \o x) :
        ns \in NamespaceSamples,
        p \in Opts("property", {<<q>> : q \in PropertySamples}),
        u \in Opts("external-service-usage", ExternalServiceUsageInputs),
        x \in {MinimalExtras, FullExtras}}

ManifestInputs == {[control |-> c] : c \in ControlInputs}

Init ==
    /\ pc = "start"
    /\ klass = "Manifest"
    /\ data \in ManifestInputs
    /\ model = NoneV
    /\ errors = {}
    /\ xml = NoneV
    /\ imported = EmptyDict
    /\ raised = [cls |-> "", msg |-> ""]
    /\ model2 = NoneV
    /\ errors2 = {}
    /\ xml2 = NoneV
    /\ dumped = NoneV
    /\ proxy = NoneV

\* Manifest.model_validate(data)
ValidateManifest == Construct("Manifest")

\* xml_text = ManifestXmlSerializer(xml_declaration=False).to_string(manifest)
Serialize ==
    /\ pc = "valid"
    /\ xml' = to_string(model)
    /\ pc' = "serialized"
    /\ UNCHANGED <<klass, data, model, errors, imported, raised, model2, errors2, xml2, dumped, proxy>>

Imported(r) ==
    /\ imported' = r.data
    /\ raised' = r.raised
    /\ pc' = IF r.raised.cls = "" THEN "imported" ELSE "import_failed"

\* parsed = parse_manifest_xml_text(xml_text)
ParseText ==
    /\ pc = "serialized"
    /\ Imported(parse_manifest_xml_text(xml))
    /\ UNCHANGED <<klass, data, model, errors, xml, model2, errors2, xml2, dumped, proxy>>

Revalidated(r) ==
    /\ model2' = r.val
    /\ errors2' = r.errs
    /\ pc' = "done"

\* roundtrip = Manifest.model_validate(parsed)
ValidateImported ==
    /\ pc = "imported"
    /\ Revalidated(ValidateModel("Manifest", imported, <<>>))
    /\ UNCHANGED <<klass, data, model, errors, xml, imported, raised, xml2, dumped, proxy>>

\* el with the attributes of every element in the opposite order
RECURSIVE Reversed(_)
Reversed(el) ==
    [el EXCEPT !.attrib = [n \in 1..Len(@) |-> @[Len(@) + 1 - n]],
               !.children = [n \in 1..Len(@) |-> Reversed(@[n])]]

\* a second serializer that writes the attributes in another order
Reserialize_reversed ==
    /\ pc = "done"
    /\ errors2 = {}
    /\ xml2' = Reversed(to_string(model2))
    /\ pc' = "reserialized"
    /\ UNCHANGED <<klass, data, model, errors, xml, imported, raised, model2, errors2, dumped, proxy>>

\* ManifestXmlSerializer().to_string(manifest) of the manifest validated
\* from the imported data
Reserialize ==
    /\ pc = "done"
    /\ errors2 = {}
    /\ xml2' = to_string(model2)
    /\ pc' = "reserialized"
    /\ UNCHANGED <<klass, data, model, errors, xml, imported, raised, model2, errors2, dumped, proxy>>

Next ==
    \/ ValidateManifest
    \/ Serialize
    \/ ParseText
    \/ ValidateImported
    \/ Reserialize

Spec == Init /\ [][Next]_vars

\* C1 as stated: every accepted manifest, serialized and imported, validates
\* again and yields a manifest equal to the first, manifests with leading,
\* trailing or only whitespace in their strings and domains included.
RoundTripLaw ==
    /\ pc = "import_failed" => FALSE
    /\ pc = "done" => errors2 = {} /\ model2 = model

(***************************************************************************)
(* SpecAssign: a caller holding a constructed manifest assigns to the      *)
(* attributes of its entities.  PcfBaseModel.model_config sets neither     *)
(* `frozen` nor `validate_assignment`, so an assignment stores the value   *)
(* as given and runs no validator.                                         *)
(***************************************************************************)
\* entity.<fname> = value
SetAttr(entity, fname, value) == [entity EXCEPT ![fname] = value]

EnabledSamples == {NoneV, BoolV(TRUE), BoolV(FALSE)}

InitAssign == Init

\* manifest.control.namespace = v
AssignNamespace ==
    /\ pc = "valid"
    /\ \E v \in NamespaceSamples :
          model' = [model EXCEPT !.control = SetAttr(@, "namespace", v)]
    /\ UNCHANGED <<pc, klass, data, errors, xml, imported, raised, model2, errors2, xml2, dumped, proxy>>

\* manifest.control.external_service_usage.enabled = v
AssignEnabled ==
    /\ pc = "valid"
    /\ model.control.external_service_usage # NoneV
    /\ \E v \in EnabledSamples :
          model' = [model EXCEPT !.control.external_service_usage = SetAttr(@, "enabled", v)]
    /\ UNCHANGED <<pc, klass, data, errors, xml, imported, raised, model2, errors2, xml2, dumped, proxy>>

NextAssign ==
    \/ ValidateManifest
    \/ AssignNamespace
    \/ AssignEnabled

SpecAssign == InitAssign /\ [][NextAssign]_vars

\* C2 as stated: once an entity exists no operation changes any of its
\* fields, so the manifest a caller holds is the one construction produced
\* from its data and still satisfies the invariants checked at construction.
EntitiesImmutable ==
    pc = "valid" =>
        /\ model = ValidateModel("Manifest", data, <<>>).val
        /\ _validate_alpha_num(model.control.namespace) = ""
        /\ \/ model.control.external_service_usage = NoneV
           \/ _enabled_requires_domains(model.control.external_service_usage) = ""

(***************************************************************************)
(* SpecImport: a ManifestSource.xml document is imported and the imported  *)
(* data validated (cli.py `import-xml`)                                     *)
(***************************************************************************)
Xe(tag, attrib, children) == [tag |-> tag, attrib |-> attrib, text |-> NoneV, children |-> children]

\* the text of an element as the parser reports it: None when there is none
XText(text) == IF text = <<>> THEN NoneV ELSE StrV(text)

Xt(tag, text) == [tag |-> tag, attrib |-> <<>>, text |-> XText(text), children |-> <<>>]

\* the tag of an element in a namespace, as the parser reports it
Clark(uri, local) == <<"{", uri, "}", local>>

PcfUri == "urn:pcf"

BoolTokens ==
    {<<"true">>, <<" ", "TRUE", " ">>, <<"False">>, <<"tRuE">>, <<"maybe">>, <<"1">>, <<>>, <<" ">>}

IntTokens ==
    {<<"1">>, <<" ", "2">>, <<"bad">>, <<" ", "bad", " ">>, <<"1", "x">>, <<"-", "1">>, <<"0">>,
     <<>>, <<" ">>}

\* the text of a type or domain element
TextTokens == {<<"FP">>, <<"a">>, <<"1", "2">>, <<" ", "b", " ">>, <<" ", "7", " ">>, <<>>, <<" ">>}

StrTokens == {<<"D">>, <<" ", "D", " ">>, <<" ">>, <<>>}

BoolSites == {"property", "property-set", "uses-feature", "external-service-usage"}

IntSites == {"code", "css", "dependency", "value"}

TextSites == {"type", "domain"}

StrSites == {"description-key"}

\* the token written at `at`: tok where the document varies, a good one elsewhere
Tok(at, site, tok, good) == IF at = site THEN tok ELSE good

PropertyEl(tag, name, description, required, value) ==
    Xe(<<tag>>,
       << <<"name", <<name>>>>, <<"display-name-key", <<"N">>>>,
          <<"description-key", description>>, <<"of-type", ENUM>>,
          <<"required", required>> >>,
       << [tag |-> <<"value">>,
           attrib |-> << <<"name", <<"a">>>>, <<"display-name-key", <<"A">>>> >>,
           text |-> XText(value),
           children |-> <<>>] >>)

ResourcesEl(code, css, dependency) ==
    Xe(<<"resources">>, <<>>,
       << Xe(<<"code">>, << <<"path", <<"index", ".", "ts">>>>, <<"order", code>> >>, <<>>),
          Xe(<<"css">>, << <<"path", <<"a">>>>, <<"order", css>> >>, <<>>),
          Xe(<<"dependency">>,
             << <<"type", <<"control">>>>, <<"name", <<"d">>>>, <<"order", dependency>> >>,
             <<>>) >>)

ControlAttribs(hasConstructor) ==
    << <<"namespace", <<"Sample">>>> >>
    \o (IF hasConstructor THEN << <<"constructor", <<"SampleControl">>>> >> ELSE <<>>)
    \o << <<"version", <<"1", ".", "0", ".", "0">>>>, <<"display-name-key", <<"K">>>> >>

ControlEl(tag, hasConstructor, site, tok) ==
    Xe(tag, ControlAttribs(hasConstructor),
       << PropertyEl("property", "p", Tok("description-key", site, tok, <<"D">>),
                     Tok("property", site, tok, <<"true">>), Tok("value", site, tok, <<"1">>)),
          Xe(<<"data-set">>, << <<"name", <<"ds">>>>, <<"display-name-key", <<"DS">>>> >>,
             << PropertyEl("property-set", "c", <<"C">>,
                           Tok("property-set", site, tok, <<"false">>), <<"2">>) >>),
          Xe(<<"type-group">>, << <<"name", <<"g">>>> >>,
             << Xt(<<"type">>, Tok("type", site, tok, <<"FP">>)) >>),
          Xe(<<"feature-usage">>, <<>>,
             << Xe(<<"uses-feature">>,
                   << <<"name", <<"f">>>>,
                      <<"required", Tok("uses-feature", site, tok, <<"true">>)>> >>,
                   <<>>) >>),
          Xe(<<"external-service-usage">>,
             << <<"enabled", Tok("external-service-usage", site, tok, <<"true">>)>> >>,
             << Xt(<<"domain">>, Tok("domain", site, tok, <<"a">>)) >>),
          ResourcesEl(Tok("code", site, tok, <<"1">>), Tok("css", site, tok, <<"2">>),
                      Tok("dependency", site, tok, <<"3">>)),
          PropertyEl("property", "q", <<"Q">>, <<"false">>, <<"3">>) >>)

ControlTags == {<<"control">>, Clark(PcfUri, "control")}

ControlEls ==
    {ControlEl(t, c, site, tok) :
        t \in ControlTags, c \in BOOLEAN,
        site \in BoolSites, tok \in BoolTokens}
    \cup {ControlEl(<<"control">>, c, site, tok) :
        c \in BOOLEAN, site \in IntSites, tok \in IntTokens}
    \cup {ControlEl(<<"control">>, TRUE, site, tok) : site \in TextSites, tok \in TextTokens}
    \cup {ControlEl(<<"control">>, TRUE, site, tok) : site \in StrSites, tok \in StrTokens}

OtherEl == Xe(<<"other">>, <<>>, <<>>)

\* the children of the root: no control, or a control after something else
ChildLists ==
    {<<>>, <<OtherEl>>}
    \cup {<<c>> : c \in ControlEls}
    \cup {<<OtherEl, c>> : c \in ControlEls}

RootTags ==
    {<<"manifest">>, Clark(PcfUri, "manifest"), <<"notmanifest">>, Clark(PcfUri, "control"),
     <<"Manifest">>}

XmlInputs == {Xe(t, <<>>, cs) : t \in RootTags, cs \in ChildLists}

InitImport ==
    /\ pc = "read"
    /\ klass = "Manifest"
    /\ data = EmptyDict
    /\ model = NoneV
    /\ errors = {}
    /\ xml \in XmlInputs
    /\ imported = EmptyDict
    /\ raised = [cls |-> "", msg |-> ""]
    /\ model2 = NoneV
    /\ errors2 = {}
    /\ xml2 = NoneV
    /\ dumped = NoneV
    /\ proxy = NoneV

\* raw = parse_manifest_xml_element(ET.parse(path).getroot())
ParseElement ==
    /\ pc = "read"
    /\ Imported(parse_manifest_xml_element(xml))
    /\ UNCHANGED <<klass, data, model, errors, xml, model2, errors2, xml2, dumped, proxy>>

\* import-xml: data = manifest.model_dump(...), written as text
DumpValidated ==
    /\ pc = "done"
    /\ errors2 = {}
    /\ dumped' = model_dump("Manifest", model2)
    /\ pc' = "dumped"
    /\ UNCHANGED <<klass, data, model, errors, xml, imported, raised, model2, errors2, xml2, proxy>>

\* import-xml --no-validate: data = raw, written as text
DumpRaw ==
    /\ pc = "imported"
    /\ dumped' = imported
    /\ pc' = "dumped_raw"
    /\ UNCHANGED <<klass, data, model, errors, xml, imported, raised, model2, errors2, xml2, proxy>>

NextImport ==
    \/ ParseElement
    \/ ValidateImported
    \/ DumpValidated
    \/ DumpRaw

SpecImport == InitImport /\ [][NextImport]_vars

(***************************************************************************)
(* Properties of the import (SpecImport)                                   *)
(***************************************************************************)
\* the tag without its {uri} prefix
LocalName(tag) == tag[Len(tag)]

HasChild(el, local) == \E n \in 1..Len(el.children) : LocalName(el.children[n].tag) = local

Child(el, local) ==
    el.children[CHOOSE n \in 1..Len(el.children) :
                   /\ LocalName(el.children[n].tag) = local
                   /\ \A m \in 1..(n - 1) : LocalName(el.children[m].tag) # local]

ImportReturned == pc \in {"imported", "import_failed", "done"}

WrongRoot == LocalName(xml.tag) # "manifest"

\* C8: the importer raises ValueError, returning nothing, exactly when the
\* root's local name is not manifest or the root has no control child; a
\* wrong root is reported even when the control is also missing.
ImporterFatalConditions ==
    ImportReturned =>
        /\ raised.cls \in {"", "ValueError"}
        /\ raised.cls = "ValueError" <=> (WrongRoot \/ ~HasChild(xml, "control"))
        /\ raised.cls = "ValueError" => (imported = NoData /\ pc = "import_failed")
        /\ WrongRoot => raised.msg = "Root element must be <manifest>."
        /\ (~WrongRoot /\ ~HasChild(xml, "control"))
              => raised.msg = "Manifest must contain a <control> element."

ImporterFatalWitness ==
    /\ pc = "import_failed"
    /\ WrongRoot
    /\ ~HasChild(xml, "control")
    /\ raised = [cls |-> "ValueError", msg |-> "Root element must be <manifest>."]

\* C9: a tree with a manifest root and a control child is imported without
\* an exception whatever is missing or malformed below the control; a
\* control without constructor is imported and then rejected by validation
\* with constructor reported missing.
ImporterTotal ==
    (ImportReturned /\ ~WrongRoot /\ HasChild(xml, "control")) =>
        /\ raised.cls = ""
        /\ Has(imported, "control")
        /\ (pc = "done" /\ ~AttrHas(Child(xml, "control"), "constructor"))
              => /\ ~Has(imported.control, "constructor")
                 /\ ErrorAt(errors2, <<"control", "constructor">>, "missing")

ImporterTotalWitness ==
    /\ pc = "done"
    /\ xml.tag = Clark(PcfUri, "manifest")
    /\ ~AttrHas(Child(xml, "control"), "constructor")
    /\ ErrorAt(errors2, <<"control", "constructor">>, "missing")

\* the element a site names, its token, and the same place in the imported
\* data and in the locations of validation errors
SiteEl(site) ==
    CASE site = "property" -> Child(Child(xml, "control"), "property")
      [] site = "value" -> Child(Child(Child(xml, "control"), "property"), "value")
      [] site = "property-set" ->
            Child(Child(Child(xml, "control"), "data-set"), "property-set")
      [] site = "uses-feature" ->
            Child(Child(Child(xml, "control"), "feature-usage"), "uses-feature")
      [] site = "external-service-usage" -> Child(Child(xml, "control"), "external-service-usage")
      [] site = "type" -> Child(Child(Child(xml, "control"), "type-group"), "type")
      [] site = "domain" ->
            Child(Child(Child(xml, "control"), "external-service-usage"), "domain")
      [] site = "description-key" -> Child(Child(xml, "control"), "property")
      [] OTHER -> Child(Child(Child(xml, "control"), "resources"), site)

SiteKey(site) ==
    CASE site \in {"property", "property-set", "uses-feature"} -> "required"
      [] site = "external-service-usage" -> "enabled"
      [] site \in {"value", "type", "domain"} -> "value"
      [] site = "description-key" -> "description-key"
      [] OTHER -> "order"

SiteToken(site) ==
    IF site \in {"value", "type", "domain"} THEN SiteEl(site).text.s
    ELSE AttrGet(SiteEl(site), SiteKey(site))

SitePath(site) ==
    CASE site \in {"property", "description-key"} -> <<"control", "property", "0">>
      [] site = "type" -> <<"control", "type-group", "0", "type", "0">>
      [] site = "domain" -> <<"control", "external-service-usage", "domain", "0">>
      [] site = "value" -> <<"control", "property", "0", "value", "0">>
      [] site = "property-set" -> <<"control", "data-set", "0", "property-set", "0">>
      [] site = "uses-feature" -> <<"control", "feature-usage", "uses-feature", "0">>
      [] site = "external-service-usage" -> <<"control", "external-service-usage">>
      [] site = "code" -> <<"control", "resources", "code">>
      [] OTHER -> <<"control", "resources", site, "0">>

SiteLoc(site) == SitePath(site) \o <<SiteKey(site)>>

\* the imported data at a path of keys and list positions
RECURSIVE At(_, _)
At(d, path) ==
    IF path = <<>> THEN d
    ELSE IF Head(path) = "0" THEN At(d[1], Tail(path))
    ELSE At(d[Head(path)], Tail(path))

SiteData(site) == At(imported, SitePath(site))

BadBool(tok) == Strip(tok) # <<>> /\ Lower(Strip(tok)) \notin {<<"true">>, <<"false">>}

BadInt(tok) == Strip(tok) # <<>> /\ ~ParseInt(tok).ok

BadAt(site) == IF site \in BoolSites THEN BadBool(SiteToken(site)) ELSE BadInt(SiteToken(site))

\* C10 as stated: for each boolean or integer attribute the importer reads
\* (property and property-set required, uses-feature required,
\* external-service-usage enabled, code, css and dependency order, the text
\* of an enum value), a bad token makes validation of the imported data
\* report a violation for that field.
TwoPhaseErrors ==
    pc = "done" =>
        \A site \in BoolSites \cup IntSites :
            BadAt(site) => (model2 = NoneV /\ \E e \in errors2 : e.loc = SiteLoc(site))

\* C10 amended: a bad integer token (text that is not a number) is kept as
\* a string and validation reports int_parsing for that field; a bad boolean
\* token is dropped, and validation reports the field missing where it is
\* mandatory (uses-feature required) and reports nothing for it where it is
\* optional (property and property-set required, external-service-usage
\* enabled).
TwoPhaseLaw ==
    pc = "done" =>
        /\ \A site \in IntSites :
              BadAt(site) =>
                  /\ SiteData(site)[SiteKey(site)] = StrV(Strip(SiteToken(site)))
                  /\ ErrorAt(errors2, SiteLoc(site), "int_parsing")
        /\ \A site \in BoolSites :
              BadAt(site) =>
                  /\ ~Has(SiteData(site), SiteKey(site))
                  /\ IF site = "uses-feature"
                     THEN ErrorAt(errors2, SiteLoc(site), "missing")
                     ELSE ~\E e \in errors2 : e.loc = SiteLoc(site)

TwoPhaseWitness ==
    /\ pc = "done"
    /\ SiteToken("property") = <<"maybe">>
    /\ ~Has(SiteData("property"), "required")
    /\ errors2 = {}

(***************************************************************************)
(* Properties of the coercions of the importer (SpecImport)                *)
(***************************************************************************)
ControlImported == pc \in {"imported", "done"}

\* the tags from the root down to the element of a site
SiteTags(site) ==
    CASE site \in {"property", "description-key"} -> <<"control", "property">>
      [] site = "value" -> <<"control", "property", "value">>
      [] site = "property-set" -> <<"control", "data-set", "property-set">>
      [] site = "uses-feature" -> <<"control", "feature-usage", "uses-feature">>
      [] site = "external-service-usage" -> <<"control", "external-service-usage">>
      [] site = "type" -> <<"control", "type-group", "type">>
      [] site = "domain" -> <<"control", "external-service-usage", "domain">>
      [] OTHER -> <<"control", "resources", site>>

DropAttr(el, attr) == [el EXCEPT !.attrib = SelectSeq(@, LAMBDA pair : pair[1] # attr)]

FirstNamed(children, name) ==
    CHOOSE n \in 1..Len(children) :
        /\ LocalName(children[n].tag) = name
        /\ \A m \in 1..(n - 1) : LocalName(children[m].tag) # name

\* the document without the attribute attr on the element at path, the
\* first of its name at every level
RECURSIVE DropAttrAt(_, _, _)
DropAttrAt(el, path, attr) ==
    IF path = <<>> THEN DropAttr(el, attr)
    ELSE [el EXCEPT !.children =
            [n \in 1..Len(el.children) |->
                IF n = FirstNamed(el.children, Head(path))
                THEN DropAttrAt(el.children[n], Tail(path), attr)
                ELSE el.children[n]]]

\* the imported list of {"value": text} items of a type or domain site
TextItemsAt(site) ==
    IF site = "type" THEN At(imported, <<"control", "type-group", "0">>)["type"]
    ELSE ListAt(At(imported, <<"control", "external-service-usage">>), "domain")

IntOrText(tok, text) ==
    IF ParseInt(tok).ok THEN IntV(ParseInt(tok).val) ELSE StrV(text)

\* C11 as stated: for order on code, css and dependency and for the text of
\* an enum value, the importer stores the integer when the text parses as
\* one and otherwise stores the raw text unchanged, never discarding it.
IntegerCoercion ==
    ControlImported =>
        \A site \in IntSites :
            /\ Has(SiteData(site), SiteKey(site))
            /\ SiteData(site)[SiteKey(site)] = IntOrText(SiteToken(site), SiteToken(site))

\* C11 amended: the importer trims the text first; text that is empty after
\* trimming leaves the key absent, text that parses as an integer is stored
\* as that integer, and any other text is stored as the trimmed string;
\* nothing is raised.
IntegerCoercionLaw ==
    ControlImported =>
        /\ raised.cls = ""
        /\ \A site \in IntSites :
              IF Strip(SiteToken(site)) = <<>> THEN ~Has(SiteData(site), SiteKey(site))
              ELSE /\ Has(SiteData(site), SiteKey(site))
                   /\ SiteData(site)[SiteKey(site)]
                         = IntOrText(SiteToken(site), Strip(SiteToken(site)))

IntegerCoercionWitness ==
    /\ pc = "imported"
    /\ SiteToken("dependency") = <<" ", "bad", " ">>
    /\ SiteData("dependency")["order"] = StrV(<<"bad">>)

\* C12 as stated: the imported value of an enum value, type or domain
\* element with text is its trimmed text, as an integer when the text is
\* numeric-looking and as the trimmed string otherwise.
ScalarChildCoercion ==
    ControlImported =>
        /\ Strip(SiteToken("value")) # <<>> =>
              /\ Has(SiteData("value"), "value")
              /\ SiteData("value")["value"]
                    = IntOrText(SiteToken("value"), Strip(SiteToken("value")))
        /\ \A site \in TextSites :
              Strip(SiteToken(site)) # <<>> =>
                  TextItemsAt(site)
                     = <<[value |-> IntOrText(SiteToken(site), Strip(SiteToken(site)))]>>

\* C12 amended: the text of an enum value is stored trimmed, as an integer
\* when it parses as one and as a string otherwise; the text of a type or
\* domain element is always stored as the trimmed string, numeric-looking
\* or not; an element whose text is empty after trimming gives no value
\* (enum value) and no item (type, domain).
ScalarChildLaw ==
    ControlImported =>
        /\ IF Strip(SiteToken("value")) = <<>> THEN ~Has(SiteData("value"), "value")
           ELSE /\ Has(SiteData("value"), "value")
                /\ SiteData("value")["value"]
                      = IntOrText(SiteToken("value"), Strip(SiteToken("value")))
        /\ \A site \in TextSites :
              TextItemsAt(site)
                 = IF Strip(SiteToken(site)) = <<>> THEN <<>>
                   ELSE <<[value |-> StrV(Strip(SiteToken(site)))]>>

ScalarChildWitness ==
    /\ pc = "imported"
    /\ SiteToken("domain") = <<" ", "7", " ">>
    /\ TextItemsAt("domain") = <<[value |-> StrV(<<"7">>)]>>

\* C13: a required or enabled attribute is imported as a boolean exactly
\* when its text, trimmed and lowercased, is true or false; any other text,
\* the empty string included, leaves the key absent; nothing is raised.
BooleanCoercion ==
    ControlImported =>
        /\ raised.cls = ""
        /\ \A site \in BoolSites :
              IF Lower(Strip(SiteToken(site))) \in {<<"true">>, <<"false">>}
              THEN /\ Has(SiteData(site), SiteKey(site))
                   /\ SiteData(site)[SiteKey(site)]
                         = BoolV(Lower(Strip(SiteToken(site))) = <<"true">>)
              ELSE ~Has(SiteData(site), SiteKey(site))

BooleanCoercionWitness ==
    /\ pc = "imported"
    /\ SiteToken("external-service-usage") = <<" ", "TRUE", " ">>
    /\ SiteData("external-service-usage")["enabled"] = BoolV(TRUE)

AttributeSites == BoolSites \cup (IntSites \ {"value"}) \cup StrSites

\* C19: an attribute given with the empty string as its value, whether it
\* is read as a string, a boolean or an integer, gives no key in the
\* imported data, and the imported data is what the document without that
\* attribute gives.
EmptyAttributesAbsent ==
    ControlImported =>
        \A site \in AttributeSites :
            SiteToken(site) = <<>> =>
                /\ ~Has(SiteData(site), SiteKey(site))
                /\ parse_manifest_xml_element(DropAttrAt(xml, SiteTags(site), SiteKey(site))).data
                      = imported

EmptyAttributesWitness ==
    /\ pc = "imported"
    /\ SiteToken("description-key") = <<>>
    /\ ~Has(SiteData("description-key"), "description-key")

(***************************************************************************)
(* The import of a rearranged document (SpecImport)                        *)
(***************************************************************************)
SameTag(a, b) == LocalName(a.tag) = LocalName(b.tag)

\* el with, at every level, the first child and its same-tag siblings moved
\* behind the other children: same-tag siblings keep their relative order
RECURSIVE Permuted(_)
PermutedChildren(children) ==
    IF children = <<>> THEN <<>>
    ELSE SelectSeq(children, LAMBDA c : ~SameTag(c, children[1]))
         \o SelectSeq(children, LAMBDA c : SameTag(c, children[1]))

Permuted(el) ==
    [el EXCEPT !.children =
        PermutedChildren([n \in 1..Len(el.children) |-> Permuted(el.children[n])])]

OtherUri == "urn:other"

\* el with every element (leavesOnly: every element without children) put
\* in the namespace uri
RECURSIVE Qualified(_, _, _)
Qualified(el, uri, leavesOnly) ==
    [el EXCEPT
        !.tag = IF leavesOnly /\ el.children # <<>> THEN @ ELSE Clark(uri, LocalName(@)),
        !.children = [n \in 1..Len(@) |-> Qualified(@[n], uri, leavesOnly)]]

Rearranged(el) == {Permuted(el), Qualified(el, OtherUri, FALSE), Qualified(el, OtherUri, TRUE)}

\* C14: the importer returns (or raises) the same for a document and for
\* the document with the children of its elements permuted, same-tag
\* siblings kept in their relative order, or with its elements put in an
\* XML namespace.
OrderAndNamespaceBlind ==
    ImportReturned =>
        \A x \in Rearranged(xml) :
            parse_manifest_xml_element(x) = [raised |-> raised, data |-> imported]

OrderAndNamespaceWitness ==
    /\ pc = "imported"
    /\ Permuted(xml) # xml
    /\ Len(imported.control["property"]) = 2
    /\ Has(imported.control, "resources")

(***************************************************************************)
(* Properties of the serialized document (Spec)                            *)
(***************************************************************************)
Serialized == pc \in {"serialized", "imported", "import_failed", "done", "reserialized"}

ChildrenNamed(el, tag) == SelectSeq(el.children, LAMBDA c : c.tag = <<tag>>)

\* the wire text of a scalar: a string or an enumeration token verbatim, a
\* boolean as true/false, an integer in decimal digits
Rendered(v) ==
    CASE v.k = "bool" -> IF v.b THEN <<"true">> ELSE <<"false">>
      [] v.k = "int" -> IntToStr(v.i)
      [] OTHER -> v.s

\* the scalar fields written as the text of their element
IsTextField(E, f) == E \in {"EnumValue", "TypeElement", "Domain"} /\ f.name = "value"

ScalarRendered(f, v, el) ==
    IF v = NoneV \/ v = StrV(<<>>) THEN ~AttrHas(el, f.alias)
    ELSE AttrHas(el, f.alias) /\ AttrGet(el, f.alias) = Rendered(v)

\* el carries the scalar fields of entity as the law says, and so do the
\* elements of its sub-entities, found under the alias of their field
RECURSIVE EntityRendered(_, _, _)
FieldRendered(E, f, v, el) ==
    CASE f.kind = "model" ->
            v = NoneV \/ ( /\ ChildrenNamed(el, f.alias) # <<>>
                           /\ EntityRendered(f.of, v, ChildrenNamed(el, f.alias)[1]) )
      [] f.kind = "list" ->
            /\ Len(ChildrenNamed(el, f.alias)) = Len(v)
            /\ \A n \in 1..Len(v) : EntityRendered(f.of, v[n], ChildrenNamed(el, f.alias)[n])
      [] OTHER ->
            IF IsTextField(E, f) THEN el.text = StrV(Rendered(v)) ELSE ScalarRendered(f, v, el)

EntityRendered(E, entity, el) ==
    \A n \in 1..Len(Fields(E)) : FieldRendered(E, Fields(E)[n], entity[Fields(E)[n].name], el)

\* C15: in the serialized document the element of every entity carries no
\* attribute for a scalar field that is None or empty, and for every other
\* scalar field the attribute with the rendered value: strings and
\* enumeration tokens verbatim, booleans as true/false (a false is written),
\* integers in decimal digits.
OmissionAndRendering ==
    Serialized => (xml.tag = <<"manifest">> /\ EntityRendered("Manifest", model, xml))

OmissionAndRenderingWitness ==
    /\ pc = "serialized"
    /\ model.control.property # <<>>
    /\ model.control.property[1].required = BoolV(FALSE)
    /\ model.control.property[1].display_name_key = NoneV
    /\ AttrGet(ChildrenNamed(xml.children[1], "property")[1], "required") = <<"false">>
    /\ ChildrenNamed(ChildrenNamed(xml.children[1], "resources")[1], "dependency") # <<>>

AttrNames(el) == [n \in 1..Len(el.attrib) |-> el.attrib[n][1]]

Position(order, name) == CHOOSE n \in 1..Len(order) : order[n] = name

\* names are names of order, in the order they have there
InOrder(names, order) ==
    /\ \A n \in 1..Len(names) : \E m \in 1..Len(order) : order[m] = names[n]
    /\ \A i, j \in 1..Len(names) : i < j => Position(order, names[i]) < Position(order, names[j])

ControlOrder ==
    <<"namespace", "constructor", "version", "display-name-key", "description-key",
      "control-type", "preview-image">>

PropertyOrder ==
    <<"name", "display-name-key", "description-key", "of-type", "of-type-group", "usage",
      "required", "default-value", "pfx-default-value">>

EventOrder == <<"name", "display-name-key", "description-key", "pfx-default-value">>

DependencyOrder == <<"type", "name", "order", "load-type">>

AllInOrder(els, order) == \A n \in 1..Len(els) : InOrder(AttrNames(els[n]), order)

\* C16 as stated: the attributes of control, property, event and dependency
\* elements are written in the order of the entity's attribute list:
\* control = namespace, constructor, version, display-name-key,
\* description-key, control-type, preview-image; property = name,
\* display-name-key, description-key, of-type, of-type-group, usage,
\* required, default-value, pfx-default-value; event = name,
\* display-name-key, description-key, pfx-default-value; dependency = type,
\* name, order, load-type.
AttributeOrder ==
    Serialized =>
        /\ InOrder(AttrNames(xml.children[1]), ControlOrder)
        /\ AllInOrder(ChildrenNamed(xml.children[1], "property"), PropertyOrder)
        /\ AllInOrder(ChildrenNamed(xml.children[1], "event"), EventOrder)
        /\ AllInOrder(ChildrenNamed(ChildrenNamed(xml.children[1], "resources")[1], "dependency"),
                      DependencyOrder)

ControlChildOrder ==
    <<"property", "event", "data-set", "type-group", "property-dependencies", "feature-usage",
      "external-service-usage", "platform-action", "resources">>

ResourcesChildOrder == <<"code", "css", "resx", "img", "platform-library", "dependency">>

ChildTags(el) == [n \in 1..Len(el.children) |-> el.children[n].tag[1]]

\* tags are tags of order, grouped in the order they have there
Grouped(tags, order) ==
    /\ \A n \in 1..Len(tags) : \E m \in 1..Len(order) : order[m] = tags[n]
    /\ \A i, j \in 1..Len(tags) : i < j => Position(order, tags[i]) <= Position(order, tags[j])

Count(tags, tag) == Cardinality({n \in 1..Len(tags) : tags[n] = tag})

\* the elements named tag are the items of list, one each and in the order
\* of the list, recognised by the attribute that renders the field key
ListOrderKept(el, tag, list, attr, key) ==
    /\ Len(ChildrenNamed(el, tag)) = Len(list)
    /\ \A n \in 1..Len(list) : AttrGet(ChildrenNamed(el, tag)[n], attr) = Rendered(list[n][key])

ControlChildrenOrdered(control, el) ==
    /\ Grouped(ChildTags(el), ControlChildOrder)
    /\ \A tag \in {"property-dependencies", "feature-usage", "external-service-usage",
                   "platform-action"} : Count(ChildTags(el), tag) <= 1
    /\ Count(ChildTags(el), "resources") = 1
    /\ el.children[Len(el.children)].tag = <<"resources">>
    /\ ListOrderKept(el, "property", control.property, "name", "name")
    /\ ListOrderKept(el, "event", control.event, "name", "name")
    /\ ListOrderKept(el, "data-set", control.data_set, "name", "name")
    /\ ListOrderKept(el, "type-group", control.type_group, "name", "name")

ResourcesChildrenOrdered(resources, el) ==
    /\ Grouped(ChildTags(el), ResourcesChildOrder)
    /\ Count(ChildTags(el), "code") = 1
    /\ el.children[1].tag = <<"code">>
    /\ ListOrderKept(el, "css", resources.css, "path", "path")
    /\ ListOrderKept(el, "resx", resources.resx, "path", "path")
    /\ ListOrderKept(el, "img", resources.img, "path", "path")
    /\ ListOrderKept(el, "platform-library", resources.platform_library, "name", "name")
    /\ ListOrderKept(el, "dependency", resources.dependency, "name", "name")

\* C17: the children of the control element are written as property*,
\* event*, data-set*, type-group*, property-dependencies?, feature-usage?,
\* external-service-usage?, platform-action?, resources, with resources
\* always present and last; the children of resources as code, css*, resx*,
\* img*, platform-library*, dependency*; the items of a list keep the order
\* of the list.
ChildOrder ==
    Serialized =>
        /\ ControlChildrenOrdered(model.control, xml.children[1])
        /\ ResourcesChildrenOrdered(model.control.resources,
                                    xml.children[1].children[Len(xml.children[1].children)])

ChildOrderWitness ==
    /\ pc = "serialized"
    /\ ChildTags(xml.children[1])
         = <<"property", "event", "event", "data-set", "type-group", "property-dependencies",
             "feature-usage", "external-service-usage", "platform-action", "resources">>
    /\ ChildTags(ChildrenNamed(xml.children[1], "resources")[1])
         = <<"code", "css", "css", "resx", "img", "platform-library", "dependency">>
    /\ model.control.resources.css[1].path # model.control.resources.css[2].path

(***************************************************************************)
(* The document serialized again (Spec)                                    *)
(***************************************************************************)
\* tests/test_import_xml.py: the tag, the attributes as a set, the text
\* stripped (None when nothing is left) and the children in order
RECURSIVE _canonical(_)
_canonical(element) ==
    [tag |-> element.tag,
     attrs |-> {element.attrib[n] : n \in 1..Len(element.attrib)},
     text |-> IF element.text = NoneV \/ Strip(element.text.s) = <<>>
              THEN NoneV ELSE StrV(Strip(element.text.s)),
     children |-> [n \in 1..Len(element.children) |-> _canonical(element.children[n])]]

\* C18 as stated: every document the serializer produces from a valid
\* manifest can be imported and validated, and serializing the result
\* yields a document with the same tags, attribute sets, trimmed text and
\* children in the same order.
ReserializationFixpoint ==
    /\ pc # "import_failed"
    /\ pc = "done" => errors2 = {}
    /\ pc = "reserialized" => _canonical(xml2) = _canonical(xml)

(***************************************************************************)
(* SpecSchema: a manifest is constructed from plain data that holds, in    *)
(* the mapping of one of its entities, one key more.                       *)
(***************************************************************************)
\* the entities given in the plain data d of an entity E, each with the
\* path that leads to it
RECURSIVE Nodes(_, _, _)
FieldNodes(f, d, loc, key) ==
    IF key = "" THEN {}
    ELSE IF f.kind = "model" THEN Nodes(f.of, d[key], loc \o <<key>>)
    ELSE IF f.kind = "list"
    THEN UNION {Nodes(f.of, d[key][m], loc \o <<key, IdxName(m)>>) : m \in 1..Len(d[key])}
    ELSE {}

Nodes(E, d, loc) ==
    {[E |-> E, loc |-> loc, d |-> d]}
    \cup UNION {FieldNodes(Fields(E)[n], d, loc, KeyOf(Fields(E)[n], d)) : n \in 1..Len(Fields(E))}

FieldGivenAs(E, d, key) == CHOOSE n \in 1..Len(Fields(E)) : KeyOf(Fields(E)[n], d) = key

\* d with d[...path...][key] = value
RECURSIVE WithKeyAt(_, _, _, _, _)
WithKeyUnder(f, d, path, key, value) ==
    IF f.kind = "model"
    THEN Put(d, path[1], WithKeyAt(f.of, d[path[1]], Tail(path), key, value))
    ELSE Put(d, path[1],
             [m \in 1..Len(d[path[1]]) |->
                 IF IdxName(m) = path[2]
                 THEN WithKeyAt(f.of, d[path[1]][m], Tail(Tail(path)), key, value)
                 ELSE d[path[1]][m]])

WithKeyAt(E, d, path, key, value) ==
    IF path = <<>> THEN Put(d, key, value)
    ELSE WithKeyUnder(Fields(E)[FieldGivenAs(E, d, path[1])], d, path, key, value)

DeclaredKeys(E) ==
    {Fields(E)[n].name : n \in 1..Len(Fields(E))} \cup {Fields(E)[n].alias : n \in 1..Len(Fields(E))}

\* a field of E given twice, under its alias and under its name
GivenTwice(E, d) ==
    \E n \in 1..Len(Fields(E)) :
        /\ Fields(E)[n].name # Fields(E)[n].alias
        /\ Has(d, Fields(E)[n].name)
        /\ Has(d, Fields(E)[n].alias)

\* a key no entity declares, a key some entities declare, the name of a
\* field of some entities, and an alias in the wrong case
ExtraKeys == {"bogus", "order", "display_name_key", "Name"}

SchemaBases ==
    {[control |-> Dict(<< <<"namespace", S1("Sample")>>, <<"constructor", S1("SampleControl")>>,
                          <<"version", Version100>>, <<"display_name_key", S1("K")>> >>
                       \o x) ] :
        x \in {MinimalExtras,
               FullExtras
               \o << <<"property",
                       <<Dict(<< <<"name", S1("e")>>, <<"of-type", StrV(ENUM)>>,
                                 <<"types", [type |-> <<[value |-> S1("FP")]>>]>>,
                                 <<"value", <<Dict(<< <<"name", S1("a")>>,
                                                      <<"display-name-key", S1("A")>>,
                                                      <<"value", IntV(1)>> >>)>> >> >>)>> >>,
                     <<"external-service-usage", [domain |-> <<[value |-> S1("a")]>>]>> >>}}

WithExtraKey(base) ==
    {WithKeyAt("Manifest", base, node.loc, key, S1("x")) :
        node \in Nodes("Manifest", base, <<>>), key \in ExtraKeys}

\* the field of E given under key, a name or an alias
FieldOfKey(E, key) ==
    Fields(E)[CHOOSE n \in 1..Len(Fields(E)) :
                 Fields(E)[n].name = key \/ Fields(E)[n].alias = key]

KeyIn(f, form) == IF form = "name" THEN f.name ELSE f.alias

NewKey(E, key, form) ==
    IF key \in DeclaredKeys(E) THEN KeyIn(FieldOfKey(E, key), form) ELSE key

\* the plain data d of an entity E with every declared key, at every depth,
\* written in one form: the field name or the alias
RECURSIVE Rekeyed(_, _, _)
RekeyedValue(f, v, form) ==
    IF f.kind = "model" THEN Rekeyed(f.of, v, form)
    ELSE IF f.kind = "list" THEN [n \in 1..Len(v) |-> Rekeyed(f.of, v[n], form)]
    ELSE v

RekeyedAt(E, d, key, form) ==
    IF key \in DeclaredKeys(E) THEN RekeyedValue(FieldOfKey(E, key), d[key], form) ELSE d[key]

Rekeyed(E, d, form) ==
    [key \in {NewKey(E, k, form) : k \in DOMAIN d} |->
        RekeyedAt(E, d, CHOOSE k \in DOMAIN d : NewKey(E, k, form) = key, form)]

SchemaInputs ==
    {d \in SchemaBases
            \cup {Rekeyed("Manifest", base, "name") : base \in SchemaBases}
            \cup UNION {WithExtraKey(base) : base \in SchemaBases} :
        \A node \in Nodes("Manifest", d, <<>>) : ~GivenTwice(node.E, node.d)}

InitSchema ==
    /\ pc = "start"
    /\ klass = "Manifest"
    /\ data \in SchemaInputs
    /\ model = NoneV
    /\ errors = {}
    /\ xml = NoneV
    /\ imported = EmptyDict
    /\ raised = [cls |-> "", msg |-> ""]
    /\ model2 = NoneV
    /\ errors2 = {}
    /\ xml2 = NoneV
    /\ dumped = NoneV
    /\ proxy = NoneV

\* the manifest is validated, then written as XML (generate); the XML is
\* imported, validated and written as plain data (import-xml)
NextSchema ==
    \/ ValidateManifest
    \/ Serialize
    \/ ParseText
    \/ ValidateImported
    \/ DumpValidated

SpecSchema == InitSchema /\ [][NextSchema]_vars

UndeclaredKeys(node) == (DOMAIN node.d) \ DeclaredKeys(node.E)

\* C20: validation rejects the plain data of a manifest when the mapping of
\* an entity, of whatever type and at whatever depth of the tree, holds a
\* key that is neither a field name nor an alias the entity declares: it
\* reports extra_forbidden at the path of that key.
ClosedWorld ==
    pc \in {"valid", "invalid"} =>
        \A node \in Nodes("Manifest", data, <<>>) :
            \A key \in UndeclaredKeys(node) :
                /\ pc = "invalid"
                /\ \E e \in errors : e.loc = node.loc \o <<key>> /\ e.type = "extra_forbidden"

\* a domain, three levels down, with the name of a field of other entities
\* as the only thing wrong in the manifest
ClosedWorldWitness ==
    /\ pc = "invalid"
    /\ \E node \in Nodes("Manifest", data, <<>>) :
          /\ node.E = "Domain"
          /\ UndeclaredKeys(node) = {"display_name_key"}
    /\ Cardinality(errors) = 1

(***************************************************************************)
(* Mandatory fields (SpecValidate)                                         *)
(***************************************************************************)
DisplayKeyGiven(d) == Has(d, "display-name-key") \/ Has(d, "display_name_key")

\* C21 as stated: a Property without display-name-key is rejected, as a
\* PropertySet without display-name-key is: validation reports the field as
\* missing.
DisplayKeyMandatory ==
    (Validated1 /\ klass \in TypedEntities /\ ~DisplayKeyGiven(data)) =>
        ErrorAt(errors, <<"display-name-key">>, "missing")

(***************************************************************************)
(* Properties of the plain data written by import-xml (SpecImport)         *)
(***************************************************************************)
Aliases(E) == {Fields(E)[n].alias : n \in 1..Len(Fields(E))}

AliasPosition(E, key) == CHOOSE n \in 1..Len(Fields(E)) : Fields(E)[n].alias = key

\* doc, a dumped mapping of entity E, has alias keys only, in the order the
\* fields are declared, and no key with None or an empty list as its value;
\* so have the mappings under it
RECURSIVE WellDumped(_, _)
ValueDumped(f, value) ==
    /\ value # NoneV
    /\ f.kind = "model" => WellDumped(f.of, value)
    /\ f.kind = "list" =>
          /\ value # <<>>
          /\ \A n \in 1..Len(value) : WellDumped(f.of, value[n])

WellDumped(E, doc) ==
    /\ \A n \in 1..Len(doc) : doc[n][1] \in Aliases(E)
    /\ \A i, j \in 1..Len(doc) :
          i < j => AliasPosition(E, doc[i][1]) < AliasPosition(E, doc[j][1])
    /\ \A n \in 1..Len(doc) : ValueDumped(Fields(E)[AliasPosition(E, doc[n][1])], doc[n][2])

\* the same of plain imported data, a mapping without an order of its own
RawOmitsDefaults(root) ==
    \A node \in Nodes("Manifest", root, <<>>) :
        \A key \in DOMAIN node.d :
            /\ key \in Aliases(node.E)
            /\ node.d[key] # NoneV
            /\ Fields(node.E)[AliasPosition(node.E, key)].kind = "list" => node.d[key] # <<>>

\* C22 as stated: the plain data written for a manifest, dumped from the
\* validated model or taken from the importer as it is (--no-validate),
\* holds no key whose value is the default or absent value of its field (no
\* empty list), holds alias keys only and keeps the declared field order.
PlainDataOmitsDefaults ==
    /\ pc = "dumped" => WellDumped("Manifest", dumped)
    /\ pc = "dumped_raw" => RawOmitsDefaults(dumped)

(***************************************************************************)
(* Containers (SpecValidate)                                               *)
(***************************************************************************)
ContainerEntities == {"TypesElement", "TypeGroup", "PropertyDependencies", "FeatureUsage"}

\* the key of the child list of a container and the entity of a child
ChildKey(E) ==
    CASE E \in {"TypesElement", "TypeGroup"} -> "type"
      [] E = "PropertyDependencies" -> "property-dependency"
      [] E = "FeatureUsage" -> "uses-feature"

ChildEntity(E) ==
    CASE E \in {"TypesElement", "TypeGroup"} -> "TypeElement"
      [] E = "PropertyDependencies" -> "PropertyDependency"
      [] E = "FeatureUsage" -> "UsesFeature"

ChildrenValid(E, list) == \A n \in 1..Len(list) : Accepts(ChildEntity(E), list[n])

\* C23: a TypesElement, TypeGroup, PropertyDependencies or FeatureUsage
\* whose child list is empty or omitted is rejected; one with at least one
\* child, every child valid (and, for a TypeGroup, its name), is accepted.
NonEmptyContainers ==
    (Validated1 /\ klass \in ContainerEntities) =>
        /\ ListAt(data, ChildKey(klass)) = <<>> => (pc = "invalid" /\ errors # {})
        /\ ( /\ ListAt(data, ChildKey(klass)) # <<>>
             /\ ChildrenValid(klass, ListAt(data, ChildKey(klass)))
             /\ klass = "TypeGroup" => Has(data, "name") )
           => (pc = "valid" /\ errors = {})

NonEmptyContainersWitness ==
    /\ pc = "invalid"
    /\ klass = "FeatureUsage"
    /\ data = EmptyDict
    /\ errors = {Err(<<>>, "value_error", "feature-usage must include at least one uses-feature")}

(***************************************************************************)
(* The names of a control (SpecValidate)                                   *)
(***************************************************************************)
Punctuation == {"-", " ", "_", ".", ":"}

\* not empty, and no character of it a hyphen, space or punctuation mark
PurelyAlphanumeric(v) == v.s # <<>> /\ \A n \in 1..Len(v.s) : v.s[n] \notin Punctuation

Rejects(errs, key) == \E e \in errs : e.loc = <<key>>

\* C24: a Control is rejected for its namespace exactly when the namespace
\* is empty or holds a character that is no letter or digit, and for its
\* constructor likewise, each whatever the other is; with both purely
\* alphanumeric the control is accepted.
AlnumLaw ==
    (Validated1 /\ klass = "Control") =>
        /\ Rejects(errors, "namespace") <=> ~PurelyAlphanumeric(data["namespace"])
        /\ Rejects(errors, "constructor") <=> ~PurelyAlphanumeric(data["constructor"])
        /\ pc = "valid" <=> ( /\ PurelyAlphanumeric(data["namespace"])
                              /\ PurelyAlphanumeric(data["constructor"]) )

AlnumLawWitness ==
    /\ pc = "invalid"
    /\ klass = "Control"
    /\ data["namespace"] = StrV(<<"a", "_", "b">>)
    /\ data["constructor"] = StrV(<<"Abc", "1">>)
    /\ errors = {Err(<<"namespace">>, "value_error", "Value must contain only letters or numbers")}

(***************************************************************************)
(* Field names and aliases (SpecSchema)                                    *)
(***************************************************************************)
AllEntities ==
    {"EnumValue", "TypeElement", "TypesElement", "TypeGroup", "Code", "Css", "Img", "Resx",
     "PlatformLibrary", "Dependency", "Resources", "Domain", "ExternalServiceUsage",
     "PlatformAction", "PropertyDependency", "PropertyDependencies", "UsesFeature",
     "FeatureUsage", "Event", "Property", "PropertySet", "DataSet", "Control", "Manifest"}

\* the field names that are the alias of no field
UnderscoreNames ==
    UNION {DeclaredKeys(E) : E \in AllEntities} \ UNION {Aliases(E) : E \in AllEntities}

RECURSIVE XmlNames(_)
XmlNames(el) ==
    {el.tag[Len(el.tag)]} \cup {el.attrib[n][1] : n \in 1..Len(el.attrib)}
    \cup UNION {XmlNames(el.children[n]) : n \in 1..Len(el.children)}

GivenByName(d) == \E node \in Nodes("Manifest", d, <<>>) : (DOMAIN node.d) \cap UnderscoreNames # {}

\* C25: plain data with fields given under their names is validated as the
\* same data with every field under its alias is: accepted or rejected
\* alike, and building the same manifest; the XML written and the plain
\* data dumped name every field by its alias.
FieldAliasing ==
    /\ pc # "start" =>
          /\ errors = {} <=> Accepts("Manifest", Rekeyed("Manifest", data, "alias"))
          /\ model = ValidateModel("Manifest", Rekeyed("Manifest", data, "alias"), <<>>).val
    /\ pc \in {"serialized", "imported", "done", "dumped"} =>
          XmlNames(xml) \cap UnderscoreNames = {}
    /\ pc = "dumped" => WellDumped("Manifest", dumped)

FieldAliasingWitness ==
    /\ pc = "dumped"
    /\ DOMAIN data["control"]
         = {"namespace", "constructor", "version", "display_name_key", "description_key",
            "control_type", "preview_image", "property", "event", "data_set", "type_group",
            "property_dependencies", "feature_usage", "external_service_usage",
            "platform_action", "resources"}
    /\ dumped[1][2][4][1] = "display-name-key"

FullManifestData ==
    [control |->
        Dict(<< <<"namespace", S1("Sample")>>, <<"constructor", S1("SampleControl")>>,
                <<"version", Version100>>, <<"display-name-key", S1("K")>> >>
             \o FullExtras
             \o << <<"property",
                     <<Dict(<< <<"name", S1("e")>>, <<"of-type", StrV(ENUM)>>,
                               <<"types", [type |-> <<[value |-> S1("FP")]>>]>>,
                               <<"value", <<Dict(<< <<"name", S1("a")>>,
                                                    <<"display-name-key", S1("A")>>,
                                                    <<"value", IntV(1)>> >>)>> >> >>)>> >>,
                   <<"external-service-usage",
                     [enabled |-> BoolV(TRUE), domain |-> <<[value |-> S1("a")]>>]>> >>)]

\* the document the serializer writes for it
FullDocument == _manifest_to_element(ValidateModel("Manifest", FullManifestData, <<>>).val)

SiteDocument ==
    Xe(<<"manifest">>, <<>>, <<ControlEl(<<"control">>, TRUE, "property", <<"true">>)>>)

\* the children the importer reads with _first_child, by the tag of the parent
Singular(parent) ==
    CASE parent = "manifest" -> {"control"}
      [] parent = "control" ->
            {"resources", "property-dependencies", "feature-usage", "external-service-usage",
             "platform-action"}
      [] parent = "resources" -> {"code"}
      [] parent \in {"property", "property-set"} -> {"types"}
      [] OTHER -> {}

\* the parents of the elements whose text is an item of a list, and the tag
\* of those elements
TextChild(parent) ==
    CASE parent \in {"types", "type-group"} -> "type"
      [] parent = "external-service-usage" -> "domain"
      [] OTHER -> ""

\* el has no text, or white space only
Blank(el) == el.text = NoneV \/ \A n \in 1..Len(el.text.s) : el.text.s[n] \in Whitespace

\* an attribute and a child that no entity declares, and an attribute and a
\* child that another element declares, on every element
WithAttr(attrib, name, value) ==
    IF \E n \in 1..Len(attrib) : attrib[n][1] = name THEN attrib ELSE <<<<name, value>>>> \o attrib

RECURSIVE Decorated(_)
Decorated(el) ==
    [el EXCEPT
        !.attrib = WithAttr(WithAttr(@, "enabled", <<"true">>), "bogus", <<"x">>),
        !.children = <<Xe(<<"bogus">>, <<>>, <<>>)>>
                     \o [n \in 1..Len(@) |-> Decorated(@[n])]
                     \o <<Xt(<<"domain">>, <<"z">>)>>]

\* a second element of the same tag, with other content, after every child
\* that is read once
OtherElement(el) ==
    [el EXCEPT !.attrib = [n \in 1..Len(@) |-> <<@[n][1], <<"9">>>>],
               !.text = NoneV,
               !.children = <<>>]

RECURSIVE Doubled(_)
RECURSIVE DoubledFrom(_, _, _)
DoubledFrom(children, parent, n) ==
    IF n > Len(children) THEN <<>>
    ELSE <<Doubled(children[n])>>
         \o (IF LocalName(children[n].tag) \in Singular(parent)
             THEN <<OtherElement(children[n])>> ELSE <<>>)
         \o DoubledFrom(children, parent, n + 1)

Doubled(el) == [el EXCEPT !.children = DoubledFrom(@, LocalName(el.tag), 1)]

\* a type, domain or value element without text before the others, and one
\* with spaces for text after them
BlankChildren(parent, text) ==
    IF TextChild(parent) # "" THEN <<Xt(<<TextChild(parent)>>, text)>>
    ELSE IF parent = "property"
    THEN <<[tag |-> <<"value">>,
            attrib |-> << <<"name", <<"b">>>>, <<"display-name-key", <<"B">>>> >>,
            text |-> XText(text),
            children |-> <<>>]>>
    ELSE <<>>

RECURSIVE WithBlanks(_)
WithBlanks(el) ==
    [el EXCEPT !.children = BlankChildren(LocalName(el.tag), <<>>)
                            \o [n \in 1..Len(@) |-> WithBlanks(@[n])]
                            \o BlankChildren(LocalName(el.tag), <<" ">>)]

\* every type, domain and value element with spaces for text
RECURSIVE AllBlank(_)
AllBlank(el) ==
    [el EXCEPT !.text = IF LocalName(el.tag) \in {"type", "domain", "value"}
                        THEN StrV(<<" ", " ">>) ELSE @,
               !.children = [n \in 1..Len(@) |-> AllBlank(@[n])]]

Maybe(flag, el, other) == IF flag THEN other ELSE el

Variants(el) ==
    {Maybe(d, Maybe(t, Maybe(w, Maybe(a, el, AllBlank(el)),
                             WithBlanks(Maybe(a, el, AllBlank(el)))),
                    Doubled(Maybe(w, Maybe(a, el, AllBlank(el)),
                                  WithBlanks(Maybe(a, el, AllBlank(el)))))),
           Decorated(Maybe(t, Maybe(w, Maybe(a, el, AllBlank(el)),
                                    WithBlanks(Maybe(a, el, AllBlank(el)))),
                           Doubled(Maybe(w, Maybe(a, el, AllBlank(el)),
                                         WithBlanks(Maybe(a, el, AllBlank(el)))))))) :
        a \in BOOLEAN, w \in BOOLEAN, t \in BOOLEAN, d \in BOOLEAN}

FullInputs ==
    UNION {Variants(el) :
             el \in {FullDocument, SiteDocument, Qualified(FullDocument, PcfUri, FALSE),
                     Qualified(SiteDocument, PcfUri, FALSE)}}

InitImportFull ==
    /\ pc = "read"
    /\ klass = "Manifest"
    /\ data = EmptyDict
    /\ model = NoneV
    /\ errors = {}
    /\ xml \in FullInputs
    /\ imported = EmptyDict
    /\ raised = [cls |-> "", msg |-> ""]
    /\ model2 = NoneV
    /\ errors2 = {}
    /\ xml2 = NoneV
    /\ dumped = NoneV
    /\ proxy = NoneV

SpecImportFull == InitImportFull /\ [][NextImport]_vars

(***************************************************************************)
(* What the importer leaves out (SpecImportFull)                           *)
(***************************************************************************)
FullImported == pc \in {"imported", "done", "dumped", "dumped_raw"}

\* a child that no parser function of the importer looks for under el
Unread(el, child) ==
    \/ LocalName(child.tag) = "bogus"
    \/ LocalName(child.tag) = "domain" /\ LocalName(el.tag) # "external-service-usage"

\* an attribute that no parser function of the importer reads from el
UnreadAttr(el, attr) ==
    \/ attr[1] = "bogus"
    \/ attr[1] = "enabled" /\ LocalName(el.tag) # "external-service-usage"

ReadAttrs(el) == SelectSeq(el.attrib, LAMBDA attr : ~UnreadAttr(el, attr))

ReadChildren(el) == SelectSeq(el.children, LAMBDA child : ~Unread(el, child))

\* el without the attributes and the children that are not read
RECURSIVE Undecorated(_)
Undecorated(el) ==
    [tag |-> el.tag,
     attrib |-> ReadAttrs(el),
     text |-> el.text,
     children |-> [n \in 1..Len(ReadChildren(el)) |-> Undecorated(ReadChildren(el)[n])]]

\* C27: every key of every mapping the importer returns is an alias or a
\* field name that the entity of the mapping declares; attributes and
\* children that the importer does not read leave what it returns unchanged,
\* and validating the imported data reports no unknown field.
ImporterInsideSchema ==
    /\ FullImported =>
          /\ \A node \in Nodes("Manifest", imported, <<>>) : UndeclaredKeys(node) = {}
          /\ imported = parse_manifest_xml_element(Undecorated(xml)).data
    /\ pc \in {"done", "dumped"} => \A e \in errors2 : e.type # "extra_forbidden"

\* a document with an unknown attribute and an unknown child on every
\* element, imported and validated without a violation
ImporterInsideSchemaWitness ==
    /\ pc = "done"
    /\ errors2 = {}
    /\ HasChild(xml, "bogus")
    /\ HasChild(Child(xml, "control"), "event")
    /\ HasChild(Child(Child(xml, "control"), "event"), "bogus")
    /\ \E n \in 1..Len(Child(xml, "control").attrib) : Child(xml, "control").attrib[n][1] = "bogus"

(***************************************************************************)
(* Children that are read once (SpecImportFull)                            *)
(***************************************************************************)
\* the n-th child of el is a later one of a tag that is read once under el
LaterSingular(el, n) ==
    /\ LocalName(el.children[n].tag) \in Singular(LocalName(el.tag))
    /\ \E m \in 1..(n - 1) : LocalName(el.children[m].tag) = LocalName(el.children[n].tag)

RECURSIVE FirstOnly(_)
RECURSIVE FirstOnlyFrom(_, _)
FirstOnlyFrom(el, n) ==
    IF n > Len(el.children) THEN <<>>
    ELSE (IF LaterSingular(el, n) THEN <<>> ELSE <<FirstOnly(el.children[n])>>)
         \o FirstOnlyFrom(el, n + 1)

\* el without the second and later children of the tags that are read once
FirstOnly(el) == [el EXCEPT !.children = FirstOnlyFrom(el, 1)]

NothingRaised == pc # "import_failed" /\ raised = [cls |-> "", msg |-> ""]

\* C28: of the children control under manifest, resources,
\* property-dependencies, feature-usage, external-service-usage and
\* platform-action under control, code under resources, and types under
\* property and property-set, the importer imports the first in document
\* order: it returns what it returns for the document without the later
\* ones, and raises nothing.
FirstOccurrenceWins ==
    /\ NothingRaised
    /\ FullImported => imported = parse_manifest_xml_element(FirstOnly(xml)).data

\* two controls with different attributes, the first with two resources,
\* codes and the other children read once: the first of each is imported
FirstOccurrenceWinsWitness ==
    /\ pc = "imported"
    /\ Len(_children(xml, "control")) = 2
    /\ _children(xml, "control")[1].attrib # _children(xml, "control")[2].attrib
    /\ \A tag \in Singular("control") : Len(_children(_children(xml, "control")[1], tag)) = 2
    /\ Len(_children(_children(_children(xml, "control")[1], "resources")[1], "code")) = 2
    /\ imported.control["namespace"] = S1("Sample")
    /\ imported.control["resources"]["code"]["path"] # StrV(<<"9">>)

(***************************************************************************)
(* Children without text (SpecImportFull)                                  *)
(***************************************************************************)
\* the children of el of that tag that have text
WithText(el, tag) == SelectSeq(el.children, LAMBDA child : LocalName(child.tag) = tag /\ ~Blank(child))

ItemChild(el, child) == LocalName(child.tag) = TextChild(LocalName(el.tag))

KeptChildren(el) == SelectSeq(el.children, LAMBDA child : ~(ItemChild(el, child) /\ Blank(child)))

\* el without the type and domain elements that have no text
RECURSIVE WithoutBlank(_)
WithoutBlank(el) ==
    [el EXCEPT !.children = [n \in 1..Len(KeptChildren(el)) |-> WithoutBlank(KeptChildren(el)[n])]]

ControlRead == _first_child(xml, "control")

\* the list imported from a types, type-group or external-service-usage
\* element has one entry per child with text
ItemsOf(d, key, el, tag) ==
    /\ Len(ListAt(d, key)) = Len(WithText(el, tag))
    /\ \A n \in 1..Len(ListAt(d, key)) : ListAt(d, key)[n] = [value |-> StrV(Strip(WithText(el, tag)[n].text.s))]

TypesOf(d, el) ==
    _first_child(el, "types") # NoneV =>
        /\ Has(d["types"], "type")
        /\ ItemsOf(d["types"], "type", _first_child(el, "types"), "type")

ValuesOf(d, el) ==
    /\ Has(d, "value") <=> _children(el, "value") # <<>>
    /\ Len(ListAt(d, "value")) = Len(_children(el, "value"))
    /\ \A n \in 1..Len(ListAt(d, "value")) :
          Has(d["value"][n], "value") <=> ~Blank(_children(el, "value")[n])

\* C29: a type child of types or type-group, or a domain child, without
\* text or with white space for text, gives no entry of the imported list;
\* a value child with such text is imported without the key value; the key
\* domain is absent when no domain has text and the key value when the
\* property has no value child, and the key type is present even when its
\* list is empty.
EmptyTextDropped ==
    FullImported =>
        /\ imported = parse_manifest_xml_element(WithoutBlank(xml)).data
        /\ \A n \in 1..Len(_children(ControlRead, "type-group")) :
              /\ Has(imported.control["type-group"][n], "type")
              /\ ItemsOf(imported.control["type-group"][n], "type",
                         _children(ControlRead, "type-group")[n], "type")
        /\ \A n \in 1..Len(_children(ControlRead, "property")) :
              /\ TypesOf(imported.control["property"][n], _children(ControlRead, "property")[n])
              /\ ValuesOf(imported.control["property"][n], _children(ControlRead, "property")[n])
        /\ _first_child(ControlRead, "external-service-usage") # NoneV =>
              /\ ItemsOf(imported.control["external-service-usage"], "domain",
                         _first_child(ControlRead, "external-service-usage"), "domain")
              /\ Has(imported.control["external-service-usage"], "domain")
                    <=> WithText(_first_child(ControlRead, "external-service-usage"), "domain") # <<>>

\* a document whose domains have white space for text and whose first
\* type-group and first property have a type with text between two without:
\* no domain key, one type each, and a value without the key value
EmptyTextDroppedWitness ==
    /\ pc = "imported"
    /\ Len(_children(_first_child(ControlRead, "external-service-usage"), "domain")) >= 2
    /\ ~Has(imported.control["external-service-usage"], "domain")
    /\ \E n \in 1..Len(imported.control["property"]) :
          /\ Has(imported.control["property"][n], "value")
          /\ \E m \in 1..Len(imported.control["property"][n]["value"]) :
                ~Has(imported.control["property"][n]["value"][m], "value")
    /\ \E n \in 1..Len(imported.control["type-group"]) :
          /\ imported.control["type-group"][n]["type"] = <<>>
          /\ Len(_children(_children(ControlRead, "type-group")[n], "type")) >= 2

\* a type with text between two without, and the one with text imported
EmptyTextBetweenWitness ==
    /\ pc = "imported"
    /\ \E n \in 1..Len(imported.control["type-group"]) :
          /\ Len(imported.control["type-group"][n]["type"]) = 1
          /\ Len(_children(_children(ControlRead, "type-group")[n], "type")) = 3

(***************************************************************************)
(* proxy/cli.py: the proxy session of one project root.                    *)
(*                                                                         *)
(* proxy is a record: session_file is NoneV when                           *)
(* .pcf-toolkit/proxy.session.json does not exist and the ProxySession     *)
(* written in it otherwise; running is the set of the pids of the child    *)
(* processes alive and spawned the number of those spawned so far;         *)
(* signalled is the set of the pids that were sent a signal; fg is the     *)
(* `proxy start` that runs in the foreground, with the step it is at; last *)
(* is the outcome of the command that ended last; live records that a      *)
(* start has written the session and that no stop and no end of a          *)
(* foreground run came after it, and unhandled that a signal arrived when  *)
(* the foreground start had not set its handlers.                          *)
(***************************************************************************)
MaxStarts == 3

manifestVars == <<pc, klass, data, model, errors, xml, imported, raised, model2, errors2, xml2, dumped>>

NoForeground == [pc |-> "none", http_pid |-> 0, mitm_pid |-> 0]

NoCommand == [cmd |-> "", code |-> 0, found |-> FALSE, signalled |-> {}, removed |-> FALSE]

InitProxy ==
    /\ pc = "cli"
    /\ klass = ""
    /\ data = EmptyDict
    /\ model = NoneV
    /\ errors = {}
    /\ xml = NoneV
    /\ imported = EmptyDict
    /\ raised = [cls |-> "", msg |-> ""]
    /\ model2 = NoneV
    /\ errors2 = {}
    /\ xml2 = NoneV
    /\ dumped = NoneV
    /\ proxy = [session_file |-> NoneV, running |-> {}, spawned |-> 0, signalled |-> {},
                fg |-> NoForeground, last |-> NoCommand, live |-> FALSE, unhandled |-> FALSE]

ProxySession(mitm_pid, http_pid) == [mitm_pid |-> mitm_pid, http_pid |-> http_pid]

\* spawn_http_server, then spawn_mitmproxy: the pids of the two new processes
HttpPid(p) == p.spawned + 1

MitmPid(p) == p.spawned + 2

Spawned(p) == [p EXCEPT !.running = @ \cup {HttpPid(p), MitmPid(p)}, !.spawned = @ + 2]

_write_session(p, session) == [p EXCEPT !.session_file = session, !.live = TRUE]

\* `if session_path.exists(): session_path.unlink()`
_clear_session(p) == [p EXCEPT !.session_file = NoneV]

\* SIGTERM (taskkill on Windows) sent to pid, which ends the process if it
\* is alive; ProcessLookupError is swallowed
Signalled(p, pid) == [p EXCEPT !.running = @ \ {pid}, !.signalled = @ \cup {pid}]

\* `if proc.poll() is None: proc.terminate()`
_terminate_proc(p, pid) == IF pid \in p.running THEN Signalled(p, pid) ELSE p

\* `if pid <= 0: return`, else os.kill(pid, SIGTERM)
_terminate_pid(p, pid) == IF pid <= 0 THEN p ELSE Signalled(p, pid)

\* _terminate_proc(http_proc); _terminate_proc(mitm_proc); _clear_session(session_dir)
Cleanup(p) == _clear_session(_terminate_proc(_terminate_proc(p, p.fg.http_pid), p.fg.mitm_pid))

Ended(p, cmd, code, found, old) ==
    [p EXCEPT !.last = [cmd |-> cmd, code |-> code, found |-> found,
                        signalled |-> p.signalled \ old.signalled,
                        removed |-> old.session_file # NoneV /\ p.session_file = NoneV]]

\* start: no configuration, no dist directory or no mitmproxy: Exit(code=1)
\* before a process is spawned
start_fails ==
    /\ proxy' = Ended(proxy, "start", 1, FALSE, proxy)
    /\ UNCHANGED manifestVars

\* start --detach: both processes spawned, the session written, return
start_detached ==
    /\ proxy.spawned < 2 * MaxStarts
    /\ proxy' = Ended(_write_session(Spawned(proxy), ProxySession(MitmPid(proxy), HttpPid(proxy))),
                      "start", 0, FALSE, proxy)
    /\ UNCHANGED manifestVars

\* start in the foreground, up to the call of _maybe_prompt_for_cert_trust:
\* both processes are spawned
start_spawn ==
    /\ proxy.fg.pc \in {"none", "ended", "killed"}
    /\ proxy.spawned < 2 * MaxStarts
    /\ proxy' = [Spawned(proxy) EXCEPT
                    !.fg = [pc |-> "spawned", http_pid |-> HttpPid(proxy), mitm_pid |-> MitmPid(proxy)]]
    /\ UNCHANGED manifestVars

\* start in the foreground, from the prompt to _write_session
start_write_session ==
    /\ proxy.fg.pc = "spawned"
    /\ proxy' = [_write_session(proxy, ProxySession(proxy.fg.mitm_pid, proxy.fg.http_pid)) EXCEPT
                    !.fg.pc = "written"]
    /\ UNCHANGED manifestVars

\* _run_foreground, up to the loop: the handlers of SIGINT and SIGTERM are set
_run_foreground ==
    /\ proxy.fg.pc = "written"
    /\ proxy' = [proxy EXCEPT !.fg.pc = "foreground"]
    /\ UNCHANGED manifestVars

ForegroundEnd(p) ==
    Ended([Cleanup(p) EXCEPT !.fg.pc = "ended", !.live = FALSE], "start", 0, FALSE, p)

\* the loop of _run_foreground finds that a process has exited: break, and
\* the finally clause
poll ==
    /\ proxy.fg.pc = "foreground"
    /\ proxy.fg.http_pid \notin proxy.running \/ proxy.fg.mitm_pid \notin proxy.running
    /\ proxy' = ForegroundEnd(proxy)
    /\ UNCHANGED manifestVars

\* SIGINT or SIGTERM while the handlers are set: _shutdown, SystemExit, and
\* the finally clause
_shutdown ==
    /\ proxy.fg.pc = "foreground"
    /\ proxy' = ForegroundEnd(proxy)
    /\ UNCHANGED manifestVars

\* SIGINT or SIGTERM before the handlers are set: KeyboardInterrupt, or the
\* end of the process, with no clause of the program run
signal_unhandled ==
    /\ proxy.fg.pc \in {"spawned", "written"}
    /\ proxy' = [proxy EXCEPT !.fg.pc = "killed",
                              !.live = IF proxy.fg.pc = "written" THEN FALSE ELSE @,
                              !.unhandled = TRUE]
    /\ UNCHANGED manifestVars

\* a child process exits by itself
child_exits ==
    /\ \E pid \in proxy.running : proxy' = [proxy EXCEPT !.running = @ \ {pid}]
    /\ UNCHANGED manifestVars

stop_found(p) ==
    _clear_session(_terminate_pid(_terminate_pid(p, p.session_file.mitm_pid), p.session_file.http_pid))

\* stop
stop ==
    /\ proxy' = IF proxy.session_file = NoneV
                THEN Ended(proxy, "stop", 1, FALSE, proxy)
                ELSE Ended([stop_found(proxy) EXCEPT !.live = FALSE], "stop", 0, TRUE, proxy)
    /\ UNCHANGED manifestVars

NextProxy ==
    \/ start_fails
    \/ start_detached
    \/ start_spawn
    \/ start_write_session
    \/ _run_foreground
    \/ poll
    \/ _shutdown
    \/ signal_unhandled
    \/ child_exits
    \/ stop

SpecProxy == InitProxy /\ [][NextProxy]_vars

(***************************************************************************)
(* The life of the session file (SpecProxy)                                *)
(***************************************************************************)
SessionFileExists == proxy.session_file # NoneV

\* the file exists exactly from a start that wrote it to the next stop or
\* end of a foreground run
SessionFileExactly == SessionFileExists <=> proxy.live

\* stop without a session file: exit code 1, and no process signalled
StopWithoutSession ==
    (proxy.last.cmd = "stop" /\ ~proxy.last.found) =>
        /\ proxy.last.code = 1
        /\ proxy.last.signalled = {}

\* stop with a session file: both recorded processes signalled, the file
\* removed
StopWithSession ==
    (proxy.last.cmd = "stop" /\ proxy.last.found) =>
        /\ proxy.last.code = 0
        /\ Cardinality(proxy.last.signalled) = 2
        /\ proxy.last.removed

ForegroundOver == proxy.fg.pc \in {"ended", "killed"}

\* the foreground run is over: its two processes are not alive and no
\* session file names them
ForegroundCleansUp ==
    ForegroundOver =>
        /\ proxy.fg.http_pid \notin proxy.running
        /\ proxy.fg.mitm_pid \notin proxy.running
        /\ proxy.session_file # ProxySession(proxy.fg.mitm_pid, proxy.fg.http_pid)

\* C30 as stated: the session file exists exactly from a successful start,
\* which writes it after spawning both processes, to the next stop or the
\* end of a foreground run; stop without a session file exits with code 1
\* and signals no process; stop with one signals both recorded processes
\* and removes it; a foreground run that a signal or the exit of one of its
\* processes ends leaves neither process alive and no session file.
SessionLifecycle ==
    /\ SessionFileExactly
    /\ StopWithoutSession
    /\ StopWithSession
    /\ ForegroundCleansUp

\* the same with the signals that arrive before _run_foreground has set
\* its handlers left aside
SessionLifecycleHandled == ~proxy.unhandled => SessionLifecycle

SpecProxyLive == SpecProxy /\ WF_vars(poll)

\* once a process of the foreground run has exited, the run ends
ForegroundEndsOnExit ==
    (/\ proxy.fg.pc = "foreground"
     /\ proxy.fg.http_pid \notin proxy.running \/ proxy.fg.mitm_pid \notin proxy.running)
        ~> (proxy.fg.pc # "foreground")

====
